---------------------------- MODULE Spec2Model ----------------------------
(***************************************************************************)
(* Model of the measurement ingestion and event-detection pipeline of      *)
(* wifi_jammer_location:                                                   *)
(*   - EventDetector (src/src/wjl/analysis/event_detector.py): threshold   *)
(*     scan, severity mapping, sort and 5-minute deduplication;            *)
(*   - the relay ingestion API (src/src/wjl/dashboard/relay_api.py) over   *)
(*     the Database (src/src/wjl/database.py): authentication, node        *)
(*     resolution and the inserts, one atomic step per database call;      *)
(*   - MonitoringScheduler (src/src/wjl/scheduler.py): start() and stop()  *)
(*     called from several threads, the primary collection loop and the    *)
(*     channel-sweep loop, one atomic step per read or write of the        *)
(*     scheduler's fields; run_once(); the primary loop with its clock     *)
(*     and the sleep of the rate cap;                                      *)
(*   - Database._lock around the mutating operations of the Database;      *)
(*   - InferenceEngine.generate_inferences                                 *)
(*     (src/src/iwc/analysis/inference_engine.py).                         *)
(***************************************************************************)
EXTENDS Integers, Sequences, FiniteSets, TLC

VARIABLES
    \* ---- EventDetector and its caller
    thresholds,     \* EventDetector.thresholds (config["thresholds"])
    df,             \* the caller's DataFrame: a sequence of measurement rows
    df_passed,      \* the DataFrame as it was when detect_events was last called
    threshold_events, \* the list _detect_threshold_events returned in that call
    events,         \* the list returned by the last detect_events call
    prev_events,    \* the list returned by the call before it
    ncalls,         \* detect_events calls made on the current window (capped)
    \* ---- relay: Config, Database tables, request handlers
    relay_api_key,  \* Config.relay_api_key(): the shared credential, or None
    nodes,          \* table nodes: a set of rows, id is the primary key
    monitoring_data,    \* table monitoring_data: rows in insertion order
    channel_amplitude,  \* table channel_amplitude: rows in insertion order
    now,            \* datetime.utcnow(), in ticks: one tick per arriving request or call
    handler,        \* per server thread: the request it handles and its locals
    resolved,       \* history: the node ids each credential has resolved to
    \* ---- MonitoringScheduler, its threads and its callers
    role,           \* Config "role": "relay" or "node"
    scan_enabled,   \* devices.local_wifi.channel_scan.enabled
    collectors,     \* the keys of MonitoringScheduler.collectors
    running,        \* MonitoringScheduler.running
    monitor_thread, \* MonitoringScheduler._monitor_thread: a thread id, or NoThread
    channel_scan_thread, \* MonitoringScheduler._channel_scan_thread, likewise
    last_collection_time, \* MonitoringScheduler._last_collection_time
    threads,        \* the threading.Thread objects created, by id
    caller,         \* per application thread: the start() / stop() call it is in
    calls,          \* start() and stop() calls made (capped)
    cycles,         \* primary collection cycles begun (capped); also their clock
    sweeps,         \* channel sweeps begun (capped); also their clock
    push_log,       \* the POSTs attempted to the relay, in order
    measurement,    \* what _collect_all returned to the last cycle that ran
    relay_url,      \* Config.relay_url(): the relay endpoint of a node, or None
    clock,          \* time.time(), in seconds (capped)
    timer,          \* per loop thread: `start` of its last cycle, end of its sleep
    capture_seconds,    \* devices.local_wifi.monitor_capture_seconds
    \* ---- Database._lock and the threads inside the mutating operations
    db_lock,        \* Database._lock: the thread that holds it, or NoThread
    writer,         \* per thread: the mutating operation it is in
    \* ---- InferenceEngine and its caller
    network_event,       \* the NetworkEvent passed to generate_inferences
    context_data,   \* the context DataFrame passed with it: a sequence of rows
    inferences      \* the list the call returned, NotCalled before the call

detector_vars ==
    <<thresholds, df, df_passed, threshold_events, events, prev_events, ncalls>>

tables == <<nodes, monitoring_data, channel_amplitude>>

relay_vars ==
    <<relay_api_key, nodes, monitoring_data, channel_amplitude, now, handler,
      resolved>>

scheduler_config == <<role, scan_enabled, collectors, relay_url, capture_seconds>>

scheduler_vars ==
    <<role, scan_enabled, collectors, running, monitor_thread,
      channel_scan_thread, last_collection_time, threads, caller, calls, cycles,
      sweeps, push_log, measurement, relay_url, clock, timer, capture_seconds>>

storage_vars == <<db_lock, writer>>

inference_vars == <<network_event, context_data, inferences>>

other_vars == <<storage_vars, inference_vars>>

vars == <<detector_vars, relay_vars, scheduler_vars, other_vars>>

(***************************************************************************)
(* Values                                                                  *)
(***************************************************************************)
\* None / NaN in a numeric column, a numeric key absent from a mapping: a value
\* outside every numeric domain of the model, never read as a number.
Null == -999

\* Bound: the longest window a caller passes to detect_events.
MaxRows == 3

\* Bound: detect_events calls counted on one window.
MaxCalls == 2

\* Timestamps are seconds within one hour (4:59, 5:00, 7:00): the first lies in
\* the 5-minute bucket 0:00, the other two in the bucket 5:00.
Timestamps == {299, 300, 420}

\* (deauth_count, disassoc_count, rf_jam_detected) of the rows of a window.
MetricValues ==
    { <<6, 5, Null>>, <<5, 6, 0>>, <<Null, Null, 1>>, <<10, 20, 1>>,
      <<25, 21, Null>> }

Rows ==
    { [timestamp |-> t, deauth_count |-> m[1], disassoc_count |-> m[2],
       rf_jam_detected |-> m[3]] : t \in Timestamps, m \in MetricValues }

\* config["thresholds"]: each key is present (a number) or absent (Null).
ThresholdConfigs ==
    { [deauth_count_threshold |-> Null, disassoc_count_threshold |-> Null],
      [deauth_count_threshold |-> 10,   disassoc_count_threshold |-> Null] }

(***************************************************************************)
(* EventDetector                                                           *)
(***************************************************************************)
\* dict.get(key, default)
Get(mapping, key, default) ==
    IF mapping[key] = Null THEN default ELSE mapping[key]

\* Mutant of GreaterThan: the threshold itself counts as exceeding it (>=).
GreaterThanInclusive(v, n) == v # Null /\ v >= n

\* pandas' comparison of a column value with a number: NaN compares False.
GreaterThan(v, n) == v # Null /\ v > n

GreaterEqual(v, n) == v # Null /\ v >= n

\* Mutant of CountSeverity: the severity bounds are inclusive (>= 20, >= 10).
CountSeverityInclusive(count) ==
    IF count >= 20 THEN "critical" ELSE IF count >= 10 THEN "severe" ELSE "moderate"

\* severity = "critical" if count > 20 else ("severe" if count > 10 else "moderate")
CountSeverity(count) ==
    IF count > 20 THEN "critical" ELSE IF count > 10 THEN "severe" ELSE "moderate"

\* NetworkEvent (event_id is the f-string "<type>_<timestamp.isoformat()>")
NetworkEvent(type, sev, ts, metric, value) ==
    [event_id |-> <<type, ts>>, event_type |-> type, severity |-> sev,
     timestamp |-> ts, metrics |-> <<metric, value>>]

\* for _, row in df[df[col] > threshold].iterrows(): if pd.notna(row[col]): ...
RECURSIVE BurstEvents(_, _, _, _)
BurstEvents(rows, col, type, threshold) ==
    IF rows = <<>> THEN <<>>
    ELSE LET row == Head(rows)
             rest == BurstEvents(Tail(rows), col, type, threshold)
         IN  IF GreaterThan(row[col], threshold) /\ row[col] # Null
             THEN <<NetworkEvent(type, CountSeverity(row[col]), row.timestamp,
                                 col, row[col])>> \o rest
             ELSE rest

\* for _, row in df[df["rf_jam_detected"] >= 1].iterrows(): ...
RECURSIVE RfJamEvents(_)
RfJamEvents(rows) ==
    IF rows = <<>> THEN <<>>
    ELSE LET row == Head(rows)
             rest == RfJamEvents(Tail(rows))
         IN  IF GreaterEqual(row.rf_jam_detected, 1)
                /\ row.rf_jam_detected # Null /\ row.rf_jam_detected >= 1
             THEN <<NetworkEvent("rf_jamming", "severe", row.timestamp,
                                 "rf_jam_detected", row.rf_jam_detected)>> \o rest
             ELSE rest

DeauthThreshold(th) == Get(th, "deauth_count_threshold", 5)

DisassocThreshold(th) == Get(th, "disassoc_count_threshold", DeauthThreshold(th))

\* EventDetector._detect_threshold_events
DetectThresholdEvents(rows, th) ==
    BurstEvents(rows, "deauth_count", "deauth_burst", DeauthThreshold(th))
    \o BurstEvents(rows, "disassoc_count", "disassoc_burst", DisassocThreshold(th))
    \o RfJamEvents(rows)

\* Insertion of x into a sequence sorted by timestamp, after every element whose
\* timestamp is not greater (a stable sort).
RECURSIVE InsertByTimestamp(_, _)
InsertByTimestamp(sorted, x) ==
    IF sorted = <<>> THEN <<x>>
    ELSE IF Head(sorted).timestamp <= x.timestamp
         THEN <<Head(sorted)>> \o InsertByTimestamp(Tail(sorted), x)
         ELSE <<x>> \o sorted

\* Mutant of SortByTimestamp: the sequence is left in the order it came in.
SortByTimestampNoop(s) == s

RECURSIVE SortByTimestamp(_)
SortByTimestamp(s) ==
    IF s = <<>> THEN <<>>
    ELSE InsertByTimestamp(SortByTimestamp(SubSeq(s, 1, Len(s) - 1)), s[Len(s)])

\* df.sort_values("timestamp").reset_index(drop=True)
SortRows(rows) == SortByTimestamp(rows)

\* Mutant of SortEvents: the combined event list is not sorted.
SortEventsSkipped(evs) == evs

\* events.sort(key=lambda e: e.timestamp)
SortEvents(evs) == SortByTimestamp(evs)

Second(t) == t % 60

Minute(t) == (t \div 60) % 60

\* timestamp.replace(second=0, microsecond=0), then
\* time_key.replace(minute=(time_key.minute // 5) * 5)
TimeKey(t) ==
    LET time_key == t - Second(t)
    IN  time_key - Minute(time_key) * 60 + ((Minute(time_key) \div 5) * 5) * 60

SeverityOrder(sev) ==
    CASE sev = "critical" -> 4
      [] sev = "severe" -> 3
      [] sev = "moderate" -> 2
      [] sev = "minor" -> 1
      [] OTHER -> 0

\* next(e for e in deduplicated if (e.event_type, time_key) == key): time_key is
\* the bucket of the event being scanned, not of e.
Existing(deduplicated, time_key, key) ==
    LET i == CHOOSE i \in 1..Len(deduplicated) :
                 /\ <<deduplicated[i].event_type, time_key>> = key
                 /\ \A j \in 1..(i - 1) :
                        <<deduplicated[j].event_type, time_key>> # key
    IN  deduplicated[i]

\* list.remove(x): drops the first element equal to x
RECURSIVE Remove(_, _)
Remove(s, x) ==
    IF s = <<>> THEN <<>>
    ELSE IF Head(s) = x THEN Tail(s) ELSE <<Head(s)>> \o Remove(Tail(s), x)

\* One iteration of the loop of _deduplicate_events over `event`.
DedupStep(state, event) ==
    LET time_key == TimeKey(event.timestamp)
        key == <<event.event_type, time_key>>
    IN  IF key \notin state.seen
        THEN [seen |-> state.seen \cup {key},
              deduplicated |-> Append(state.deduplicated, event)]
        ELSE LET existing == Existing(state.deduplicated, time_key, key)
             IN  IF SeverityOrder(event.severity) > SeverityOrder(existing.severity)
                 THEN [seen |-> state.seen,
                       deduplicated |->
                           Append(Remove(state.deduplicated, existing), event)]
                 ELSE state

RECURSIVE DedupLoop(_, _)
DedupLoop(state, evs) ==
    IF evs = <<>> THEN state
    ELSE DedupLoop(DedupStep(state, Head(evs)), Tail(evs))

\* EventDetector._deduplicate_events
DeduplicateEvents(evs) ==
    IF evs = <<>> THEN evs
    ELSE DedupLoop([seen |-> {}, deduplicated |-> <<>>], evs).deduplicated

\* EventDetector.detect_events: threshold_events, the list of the threshold scan
\* over the sorted rows (none when df.empty)
ThresholdEventsOf(rows, th) ==
    IF rows = <<>> THEN <<>> ELSE DetectThresholdEvents(SortRows(rows), th)

\* EventDetector.detect_events: the returned list
DetectEventsResult(rows, th) ==
    IF rows = <<>> THEN <<>>
    ELSE DeduplicateEvents(SortEvents(ThresholdEventsOf(rows, th)))

\* Mutant of CallerFrameAfter: the rows are sorted in place
\* (df.sort_values("timestamp", inplace=True)).
CallerFrameSortedInPlace(rows) == SortRows(rows)

\* EventDetector.detect_events: the caller's DataFrame after the call. The method
\* rebinds its local name df to a copy (df.copy(), sort_values without inplace).
CallerFrameAfter(rows) == rows

(***************************************************************************)
(* Relay: values                                                           *)
(***************************************************************************)
\* None for a string, and for a name (names are sequences of strings, so that
\* the default name "Node-<id>" can be built).
None == "None"

NoName == <<>>

\* Bound: requests that arrive at the relay in one run.
MaxRequests == 2

\* Server threads that handle requests concurrently.
Workers == {1, 2}

\* Credentials that nodes present.
Keys == {"k1", "k2", "k3"}

\* hashlib.sha256(api_key.encode()).hexdigest(): distinct credentials have
\* distinct digests; prefix is the first 12 hex characters, rest the other 52.
\* k1 and k2 are two credentials whose digests share the prefix.
Sha256(api_key) ==
    CASE api_key = "k1" -> [prefix |-> "aa", rest |-> "1"]
      [] api_key = "k2" -> [prefix |-> "aa", rest |-> "2"]
      [] api_key = "k3" -> [prefix |-> "bb", rest |-> "1"]
      [] OTHER -> [prefix |-> "ee", rest |-> "0"]

NoHash == [prefix |-> None, rest |-> None]

\* Mutant of NodeIdOf: the id is cut from the end of the digest (key_hash[-12:]).
NodeIdOfSuffix(key_hash) == key_hash.rest

\* node_id = key_hash[:12]
NodeIdOf(key_hash) == key_hash.prefix

\* A header value is <<scheme, token>>; <<>> when the header is absent.
NoHeader == <<>>

Headers(x_api_key, authorization) ==
    [x_api_key |-> x_api_key, authorization |-> authorization]

\* (request.headers.get("X-API-Key") or request.headers.get("Authorization")
\*  or "").replace("Bearer ", "").strip()
GetApiKey(headers) ==
    LET Falsy(h) == h = NoHeader \/ (h[1] = "" /\ h[2] = "")
        raw == IF ~Falsy(headers.x_api_key) THEN headers.x_api_key
               ELSE IF ~Falsy(headers.authorization) THEN headers.authorization
               ELSE <<"", "">>
    IN  raw[2]

\* Mutant of Authenticated: the shared credential is not compared.
AuthenticatedAnyKey(api_key, allowed) == api_key # ""

\* Mutant of Authenticated: the test `if not api_key` is left out.
AuthenticatedEmptyKey(api_key, allowed) == ~(allowed # None /\ api_key # allowed)

\* not (not api_key) and not (allowed is not None and api_key != allowed)
Authenticated(api_key, allowed) ==
    /\ api_key # ""
    /\ ~(allowed # None /\ api_key # allowed)

\* The value of the "samples" key of a channel-amplitude body.
JsonAbsent == [type |-> "absent", items |-> <<>>]

JsonList(items) == [type |-> "list", items |-> items]

\* A JSON string; its characters stand in items.
JsonString(items) == [type |-> "str", items |-> items]

\* A JSON object that is not a sample list; its members stand in items.
JsonObject(items) == [type |-> "dict", items |-> items]

\* Python truthiness of None, "", 0, [], {}
TruthyJson(v) == v.type # "absent" /\ v.items # <<>>

TruthyName(v) == v # NoName

TruthyNumber(v) == v # Null /\ v # 0

\* A timestamp string datetime.fromisoformat cannot parse.
BadIso == -1

Sample(is_dict, timestamp, channel) ==
    [is_dict |-> is_dict, timestamp |-> timestamp, channel |-> channel,
     signal_dbm |-> Null, noise_dbm |-> Null]

\* json.loads("{}"): every key absent.
EmptyBody ==
    [valid |-> TRUE, node_name |-> NoName, name |-> NoName,
     latitude |-> Null, node_latitude |-> Null,
     longitude |-> Null, node_longitude |-> Null,
     node_id |-> None, timestamp |-> Null,
     wifi_channel |-> Null, wifi_util_pct |-> Null, noise_dbm |-> Null,
     deauth_count |-> Null, disassoc_count |-> Null,
     local_wifi_signal_dbm |-> Null, local_wifi_noise_dbm |-> Null,
     rf_jam_detected |-> Null,
     samples |-> JsonAbsent, channel_amplitude |-> JsonAbsent]

\* A body json.loads rejects.
InvalidJson == [EmptyBody EXCEPT !.valid = FALSE]

Request(endpoint, headers, body) ==
    [endpoint |-> endpoint, headers |-> headers, body |-> body]

XKey(k) == Headers(<<"", k>>, NoHeader)

Bearer(k) == Headers(NoHeader, <<"Bearer ", k>>)

NoKey == Headers(NoHeader, NoHeader)

\* The requests nodes send.
Requests ==
    { Request("measurements", XKey("k1"), [EmptyBody EXCEPT !.deauth_count = 12]),
      Request("measurements", XKey("k2"),
              [EmptyBody EXCEPT !.node_name = <<"n1">>, !.latitude = 1,
                                !.longitude = 1, !.node_id = "bb"]),
      Request("measurements", XKey("k3"),
              [EmptyBody EXCEPT !.latitude = 2, !.longitude = 2, !.timestamp = 9]),
      Request("measurements", XKey("k1"),
              [EmptyBody EXCEPT !.name = <<"n2">>, !.node_latitude = 2,
                                !.node_longitude = 2]),
      Request("measurements", NoKey, [EmptyBody EXCEPT !.deauth_count = 12]),
      Request("measurements", XKey("k1"), InvalidJson),
      Request("measurements", Bearer("k3"),
              [EmptyBody EXCEPT !.name = <<"n3">>, !.latitude = 1,
                                !.longitude = 1]),
      Request("channel_amplitude", XKey("k1"),
              [EmptyBody EXCEPT !.samples =
                  JsonList(<<Sample(TRUE, 5, 1), Sample(TRUE, 5, Null),
                             Sample(TRUE, 5, 6)>>)]),
      Request("channel_amplitude", XKey("k3"),
              [EmptyBody EXCEPT !.samples = JsonString(<<"x">>)]),
      Request("channel_amplitude", XKey("k2"), InvalidJson),
      Request("channel_amplitude", NoKey,
              [EmptyBody EXCEPT !.samples = JsonList(<<Sample(TRUE, 5, 1)>>)]),
      Request("channel_amplitude", XKey("k3"),
              [EmptyBody EXCEPT !.channel_amplitude =
                  JsonList(<<Sample(FALSE, Null, Null), Sample(TRUE, BadIso, 1),
                             Sample(TRUE, 7, 11)>>),
                                !.samples = JsonObject(<<>>)]),
      Request("config", XKey("k1"), EmptyBody),
      Request("config", NoKey, EmptyBody) }

NoRequest == Request("none", NoKey, EmptyBody)

(***************************************************************************)
(* Database                                                                *)
(***************************************************************************)
\* A row of nodes as get_node_by_api_key returns it (no api_key_hash column);
\* NoRow stands for None.
NodeRow(n) ==
    [id |-> n.id, name |-> n.name, latitude |-> n.latitude,
     longitude |-> n.longitude, last_seen |-> n.last_seen]

NoRow ==
    [id |-> None, name |-> NoName, latitude |-> Null, longitude |-> Null,
     last_seen |-> Null]

\* Mutant of Coalesce: the excluded value is stored whatever it is.
CoalesceExcluded(new, old, null) == new

\* COALESCE(excluded.x, x)
Coalesce(new, old, null) == IF new # null THEN new ELSE old

\* Mutant of UpsertNode: the record is added without regard to a record of the
\* same id (no ON CONFLICT clause, no key on id).
UpsertNodeInsertOnly(table, node_id, name, latitude, longitude, api_key_hash, time) ==
    table \cup { [id |-> node_id, name |-> name, latitude |-> latitude,
                  longitude |-> longitude, api_key_hash |-> api_key_hash,
                  last_seen |-> time] }

\* Database.upsert_node: INSERT ... ON CONFLICT(id) DO UPDATE SET ...
UpsertNode(table, node_id, name, latitude, longitude, api_key_hash, time) ==
    IF \E n \in table : n.id = node_id
    THEN { IF n.id # node_id THEN n
           ELSE [id |-> n.id,
                 name |-> name,
                 latitude |-> Coalesce(latitude, n.latitude, Null),
                 longitude |-> Coalesce(longitude, n.longitude, Null),
                 api_key_hash |-> Coalesce(api_key_hash, n.api_key_hash, NoHash),
                 last_seen |-> time] : n \in table }
    ELSE table \cup { [id |-> node_id, name |-> name, latitude |-> latitude,
                       longitude |-> longitude, api_key_hash |-> api_key_hash,
                       last_seen |-> time] }

\* Database.touch_node_last_seen: UPDATE nodes SET last_seen = ? WHERE id = ?
TouchNodeLastSeen(table, node_id, time) ==
    { IF n.id = node_id THEN [n EXCEPT !.last_seen = time] ELSE n : n \in table }

\* Database.get_node_by_api_key: SELECT ... WHERE api_key_hash = ?; fetchone()
GetNodeByApiKey(table, api_key) ==
    LET key_hash == Sha256(api_key)
        found == { n \in table : n.api_key_hash = key_hash }
    IN  IF found = {} THEN NoRow
        ELSE NodeRow(CHOOSE n \in found : TRUE)

\* Mutant of InsertMeasurement: node_id is not among the stored columns.
InsertMeasurementUntagged(table, data) ==
    Append(table,
           [timestamp |-> data.timestamp, node_id |-> None,
            wifi_channel |-> data.wifi_channel,
            wifi_util_pct |-> data.wifi_util_pct,
            noise_dbm |-> data.noise_dbm,
            deauth_count |-> data.deauth_count,
            disassoc_count |-> data.disassoc_count,
            local_wifi_signal_dbm |-> data.local_wifi_signal_dbm,
            local_wifi_noise_dbm |-> data.local_wifi_noise_dbm,
            rf_jam_detected |-> data.rf_jam_detected])

\* Database.insert_measurement: the row stored for `data` (the keys of
\* MONITORING_DATA_COLUMNS; a key that is absent or None is stored as NULL).
InsertMeasurement(table, data) ==
    Append(table,
           [timestamp |-> data.timestamp, node_id |-> data.node_id,
            wifi_channel |-> data.wifi_channel,
            wifi_util_pct |-> data.wifi_util_pct,
            noise_dbm |-> data.noise_dbm,
            deauth_count |-> data.deauth_count,
            disassoc_count |-> data.disassoc_count,
            local_wifi_signal_dbm |-> data.local_wifi_signal_dbm,
            local_wifi_noise_dbm |-> data.local_wifi_noise_dbm,
            rf_jam_detected |-> data.rf_jam_detected])

\* Database.insert_channel_amplitude
InsertChannelAmplitude(table, timestamp, node_id, channel, signal_dbm, noise_dbm) ==
    Append(table,
           [timestamp |-> timestamp, node_id |-> node_id, channel |-> channel,
            signal_dbm |-> signal_dbm, noise_dbm |-> noise_dbm])

\* DataService.get_time_series_data over the whole table: the rows ordered by
\* timestamp, with the columns detect_events reads.
TimeSeriesData(table) ==
    SortRows([i \in 1..Len(table) |->
                 [timestamp |-> table[i].timestamp,
                  deauth_count |-> table[i].deauth_count,
                  disassoc_count |-> table[i].disassoc_count,
                  rf_jam_detected |-> table[i].rf_jam_detected]])

(***************************************************************************)
(* Relay API handlers (register_relay_api)                                 *)
(***************************************************************************)
NoResponse == [status |-> 0, node_id |-> None, stored |-> 0]

\* A server thread with no request.  unseen, created and inserted record what
\* the request has done so far: whether its first get_node_by_api_key returned
\* None, how many Node records its upsert_node calls added, and how many rows
\* its insert_measurement / insert_channel_amplitude calls added.
IdleHandler ==
    [pc |-> "idle", req |-> NoRequest, arrived |-> 0, node_row |-> NoRow,
     node_id |-> None, next |-> 1, stored |-> 0, resp |-> NoResponse,
     unseen |-> FALSE, created |-> 0, inserted |-> 0]

\* return json_response(..., status)
Respond(h, status, node_id, stored) ==
    [h EXCEPT !.pc = "idle",
              !.resp = [status |-> status, node_id |-> node_id, stored |-> stored]]

\* a or b, for names and for numbers
OrName(a, b) == IF TruthyName(a) THEN a ELSE b

OrNumber(a, b) == IF TruthyNumber(a) THEN a ELSE b

\* body.get("node_name") or body.get("name")
BodyName(body) == OrName(body.node_name, body.name)

\* body.get("latitude") or body.get("node_latitude")
BodyLatitude(body) == OrNumber(body.latitude, body.node_latitude)

\* body.get("longitude") or body.get("node_longitude")
BodyLongitude(body) == OrNumber(body.longitude, body.node_longitude)

\* f"Node-{node_id}"
DefaultName(node_id) == <<"Node-", node_id>>

\* body.get("samples") or body.get("channel_amplitude") or []
BodySamples(body) ==
    IF TruthyJson(body.samples) THEN body.samples
    ELSE IF TruthyJson(body.channel_amplitude) THEN body.channel_amplitude
    ELSE JsonList(<<>>)

\* Mutant of StorableSample: the tests of timestamp and channel are left out.
StorableSampleAnyDict(sample) == sample.is_dict

\* A batch entry the loop of api_channel_amplitude stores: a dict with timestamp
\* and channel, whose timestamp parses.
StorableSample(sample) ==
    /\ sample.is_dict
    /\ sample.timestamp # Null
    /\ sample.channel # Null
    /\ sample.timestamp # BadIso

\* Mutant of ResolvedNodeId: a node_id given in the body is used when present.
ResolvedNodeIdFromBody(node_row, body) ==
    IF body.node_id # None THEN body.node_id ELSE node_row.id

\* node_id = node_row["id"]
ResolvedNodeId(node_row, body) == node_row.id

\* Mutant of MeasurementOf: the row is tagged with the node_id of the body when
\* the body has one.
MeasurementOfBodyNode(body, node_id, time) ==
    [timestamp |-> IF TruthyNumber(body.timestamp) THEN body.timestamp ELSE time,
     node_id |-> IF body.node_id # None THEN body.node_id ELSE node_id,
     wifi_channel |-> body.wifi_channel,
     wifi_util_pct |-> body.wifi_util_pct,
     noise_dbm |-> body.noise_dbm,
     deauth_count |-> body.deauth_count,
     disassoc_count |-> body.disassoc_count,
     local_wifi_signal_dbm |-> body.local_wifi_signal_dbm,
     local_wifi_noise_dbm |-> body.local_wifi_noise_dbm,
     rf_jam_detected |-> body.rf_jam_detected]

\* Mutant of MeasurementOf: a metric the body does not hold is set to 0.
MeasurementOfZeroed(body, node_id, time) ==
    LET OrZero(v) == IF v = Null THEN 0 ELSE v
    IN  [timestamp |-> IF TruthyNumber(body.timestamp) THEN body.timestamp ELSE time,
         node_id |-> node_id,
         wifi_channel |-> OrZero(body.wifi_channel),
         wifi_util_pct |-> OrZero(body.wifi_util_pct),
         noise_dbm |-> OrZero(body.noise_dbm),
         deauth_count |-> OrZero(body.deauth_count),
         disassoc_count |-> OrZero(body.disassoc_count),
         local_wifi_signal_dbm |-> OrZero(body.local_wifi_signal_dbm),
         local_wifi_noise_dbm |-> OrZero(body.local_wifi_noise_dbm),
         rf_jam_detected |-> OrZero(body.rf_jam_detected)]

\* The measurement dict api_measurements builds from the body.
MeasurementOf(body, node_id, time) ==
    [timestamp |-> IF TruthyNumber(body.timestamp) THEN body.timestamp ELSE time,
     node_id |-> node_id,
     wifi_channel |-> body.wifi_channel,
     wifi_util_pct |-> body.wifi_util_pct,
     noise_dbm |-> body.noise_dbm,
     deauth_count |-> body.deauth_count,
     disassoc_count |-> body.disassoc_count,
     local_wifi_signal_dbm |-> body.local_wifi_signal_dbm,
     local_wifi_noise_dbm |-> body.local_wifi_noise_dbm,
     rf_jam_detected |-> body.rf_jam_detected]

ApiKeyOf(h) == GetApiKey(h.req.headers)

\* A request reaches an idle server thread (the first idle one: which thread of
\* the pool serves a request makes no difference to the handler).
Accept(w, r) ==
    /\ handler[w].pc = "idle"
    /\ \A v \in Workers : v < w => handler[v].pc # "idle"
    /\ now < MaxRequests
    /\ r \in Requests
    /\ now' = now + 1

Accepted(r) == [IdleHandler EXCEPT !.req = r, !.arrived = now + 1]

\* The number of Node records an upsert_node call has added.
Added(before, after) == Cardinality(after) - Cardinality(before)

\* api_measurements, node_id = node_row["id"] and the branch on the body's name
MeasurementsResolved(w, h, row) ==
    LET node_id == ResolvedNodeId(row, h.req.body)
    IN  /\ handler' = [handler EXCEPT ![w] =
               [h EXCEPT !.node_row = row, !.node_id = node_id,
                         !.pc = IF TruthyName(BodyName(h.req.body))
                                THEN "m_update" ELSE "m_insert"]]
        /\ resolved' = [resolved EXCEPT ![ApiKeyOf(h)] = @ \cup {node_id}]

\* api_channel_amplitude, node_id = node_row["id"], then the parse of the body and
\* the isinstance test of samples
ChannelResolved(w, h, row) ==
    LET node_id == row.id
        h1 == [h EXCEPT !.node_row = row, !.node_id = node_id]
    IN  /\ handler' = [handler EXCEPT ![w] =
               IF ~h.req.body.valid THEN Respond(h1, 400, None, 0)
               ELSE IF BodySamples(h.req.body).type # "list"
                    THEN Respond(h1, 400, None, 0)
                    ELSE [h1 EXCEPT !.pc = "c_samples"]]
        /\ resolved' = [resolved EXCEPT ![ApiKeyOf(h)] = @ \cup {node_id}]

\* POST /api/measurements, up to the first get_node_by_api_key
ApiMeasurements(w, r) ==
    /\ Accept(w, r)
    /\ r.endpoint = "measurements"
    /\ LET h == Accepted(r)
           api_key == GetApiKey(r.headers)
           row == GetNodeByApiKey(nodes, api_key)
       IN  IF ~Authenticated(api_key, relay_api_key)
           THEN /\ handler' = [handler EXCEPT ![w] = Respond(h, 401, None, 0)]
                /\ UNCHANGED resolved
           ELSE IF ~r.body.valid
           THEN /\ handler' = [handler EXCEPT ![w] = Respond(h, 400, None, 0)]
                /\ UNCHANGED resolved
           ELSE IF row = NoRow
           THEN /\ handler' = [handler EXCEPT ![w] =
                           [h EXCEPT !.pc = "m_register", !.unseen = TRUE]]
                /\ UNCHANGED resolved
           ELSE MeasurementsResolved(w, h, row)
    /\ UNCHANGED <<detector_vars, scheduler_vars, other_vars,
                       relay_api_key, tables>>

\* api_measurements: the first upsert_node, for a credential not seen before
MeasurementsRegister(w) ==
    LET h == handler[w]
        body == h.req.body
        key_hash == Sha256(ApiKeyOf(h))
        node_id == NodeIdOf(key_hash)
    IN  /\ h.pc = "m_register"
        /\ nodes' = UpsertNode(nodes, node_id,
                               OrName(BodyName(body), DefaultName(node_id)),
                               BodyLatitude(body), BodyLongitude(body),
                               key_hash, now)
        /\ handler' = [handler EXCEPT ![w].pc = "m_lookup",
                                      ![w].created = h.created + Added(nodes, nodes')]
        /\ UNCHANGED <<detector_vars, scheduler_vars, other_vars,
                       relay_api_key, monitoring_data, channel_amplitude, now,
                       resolved>>

\* api_measurements: the second get_node_by_api_key
MeasurementsLookup(w) ==
    LET h == handler[w]
        row == GetNodeByApiKey(nodes, ApiKeyOf(h))
    IN  /\ h.pc = "m_lookup"
        /\ IF row = NoRow
           THEN /\ handler' = [handler EXCEPT ![w] = Respond(h, 500, None, 0)]
                /\ UNCHANGED resolved
           ELSE MeasurementsResolved(w, h, row)
        /\ UNCHANGED <<detector_vars, scheduler_vars, other_vars,
                       relay_api_key, tables, now>>

\* api_measurements: the upsert_node of a request that names the node
MeasurementsUpdate(w) ==
    LET h == handler[w]
        body == h.req.body
        lat == BodyLatitude(body)
        lon == BodyLongitude(body)
    IN  /\ h.pc = "m_update"
        /\ nodes' = UpsertNode(nodes, h.node_id, BodyName(body),
                               IF lat # Null THEN lat ELSE h.node_row.latitude,
                               IF lon # Null THEN lon ELSE h.node_row.longitude,
                               NoHash, now)
        /\ handler' = [handler EXCEPT ![w].pc = "m_insert",
                                      ![w].created = h.created + Added(nodes, nodes')]
        /\ UNCHANGED <<detector_vars, scheduler_vars, other_vars,
                       relay_api_key, monitoring_data, channel_amplitude, now,
                       resolved>>

\* api_measurements: insert_measurement
MeasurementsInsert(w) ==
    LET h == handler[w]
    IN  /\ h.pc = "m_insert"
        /\ monitoring_data' =
               InsertMeasurement(monitoring_data,
                                 MeasurementOf(h.req.body, h.node_id, now))
        /\ handler' = [handler EXCEPT ![w].pc = "m_touch",
                                      ![w].inserted = h.inserted + 1]
        /\ UNCHANGED <<detector_vars, scheduler_vars, other_vars,
                       relay_api_key, nodes, channel_amplitude, now, resolved>>

\* api_measurements: touch_node_last_seen and the 201 response
MeasurementsTouch(w) ==
    LET h == handler[w]
    IN  /\ h.pc = "m_touch"
        /\ nodes' = TouchNodeLastSeen(nodes, h.node_id, now)
        /\ handler' = [handler EXCEPT ![w] = Respond(h, 201, h.node_id, 0)]
        /\ UNCHANGED <<detector_vars, scheduler_vars, other_vars,
                       relay_api_key, monitoring_data, channel_amplitude, now,
                       resolved>>

\* POST /api/channel_amplitude, up to the first get_node_by_api_key
ApiChannelAmplitude(w, r) ==
    /\ Accept(w, r)
    /\ r.endpoint = "channel_amplitude"
    /\ LET h == Accepted(r)
           api_key == GetApiKey(r.headers)
           row == GetNodeByApiKey(nodes, api_key)
       IN  IF ~Authenticated(api_key, relay_api_key)
           THEN /\ handler' = [handler EXCEPT ![w] = Respond(h, 401, None, 0)]
                /\ UNCHANGED resolved
           ELSE IF row = NoRow
           THEN /\ handler' = [handler EXCEPT ![w] =
                           [h EXCEPT !.pc = "c_register", !.unseen = TRUE]]
                /\ UNCHANGED resolved
           ELSE ChannelResolved(w, h, row)
    /\ UNCHANGED <<detector_vars, scheduler_vars, other_vars,
                       relay_api_key, tables>>

\* api_channel_amplitude: upsert_node for a credential not seen before
ChannelRegister(w) ==
    LET h == handler[w]
        key_hash == Sha256(ApiKeyOf(h))
        node_id == NodeIdOf(key_hash)
    IN  /\ h.pc = "c_register"
        /\ nodes' = UpsertNode(nodes, node_id, DefaultName(node_id), Null, Null,
                               key_hash, now)
        /\ handler' = [handler EXCEPT ![w].pc = "c_lookup",
                                      ![w].created = h.created + Added(nodes, nodes')]
        /\ UNCHANGED <<detector_vars, scheduler_vars, other_vars,
                       relay_api_key, monitoring_data, channel_amplitude, now,
                       resolved>>

\* api_channel_amplitude: the second get_node_by_api_key
ChannelLookup(w) ==
    LET h == handler[w]
        row == GetNodeByApiKey(nodes, ApiKeyOf(h))
    IN  /\ h.pc = "c_lookup"
        /\ IF row = NoRow
           THEN /\ handler' = [handler EXCEPT ![w] = Respond(h, 500, None, 0)]
                /\ UNCHANGED resolved
           ELSE ChannelResolved(w, h, row)
        /\ UNCHANGED <<detector_vars, scheduler_vars, other_vars,
                       relay_api_key, tables, now>>

\* The positions, from h.next on, of the batch entries that are stored.
StorableFrom(h) ==
    LET samples == BodySamples(h.req.body).items
    IN  { i \in h.next..Len(samples) : StorableSample(samples[i]) }

\* api_channel_amplitude: the loop, up to and with its next
\* insert_channel_amplitude (the entries before it are skipped)
ChannelInsertSample(w) ==
    LET h == handler[w]
        samples == BodySamples(h.req.body).items
    IN  /\ h.pc = "c_samples"
        /\ StorableFrom(h) # {}
        /\ LET i == CHOOSE i \in StorableFrom(h) : \A j \in StorableFrom(h) : i <= j
           IN  /\ channel_amplitude' =
                      InsertChannelAmplitude(channel_amplitude,
                                             samples[i].timestamp, h.node_id,
                                             samples[i].channel,
                                             samples[i].signal_dbm,
                                             samples[i].noise_dbm)
               /\ handler' = [handler EXCEPT ![w].next = i + 1,
                                             ![w].stored = h.stored + 1,
                                             ![w].inserted = h.inserted + 1]
        /\ UNCHANGED <<detector_vars, scheduler_vars, other_vars,
                       relay_api_key, nodes, monitoring_data, now, resolved>>

\* api_channel_amplitude: the end of the loop, touch_node_last_seen and the 201
\* response
ChannelTouch(w) ==
    LET h == handler[w]
    IN  /\ h.pc = "c_samples"
        /\ StorableFrom(h) = {}
        /\ nodes' = TouchNodeLastSeen(nodes, h.node_id, now)
        /\ handler' = [handler EXCEPT ![w] = Respond(h, 201, h.node_id, h.stored)]
        /\ UNCHANGED <<detector_vars, scheduler_vars, other_vars,
                       relay_api_key, monitoring_data, channel_amplitude, now,
                       resolved>>

\* GET /api/config
ApiConfig(w, r) ==
    /\ Accept(w, r)
    /\ r.endpoint = "config"
    /\ handler' = [handler EXCEPT ![w] =
           IF ~Authenticated(GetApiKey(r.headers), relay_api_key)
           THEN Respond(Accepted(r), 401, None, 0)
           ELSE Respond(Accepted(r), 200, None, 0)]
    /\ UNCHANGED <<detector_vars, scheduler_vars, other_vars,
                       relay_api_key, tables, resolved>>

(***************************************************************************)
(* MonitoringScheduler                                                     *)
(***************************************************************************)
\* Bound: start() and stop() calls made in one run.
MaxSchedulerCalls == 3

\* Bound: primary collection cycles begun in one run.
MaxCycles == 2

\* Bound: channel sweeps begun in one run.
MaxSweeps == 1

\* Application threads that call start() and stop().
Callers == {1, 2}

\* None for a thread reference.
NoThread == 0

\* devices.local_wifi.monitor_capture_seconds when the key is absent
DefaultCaptureSeconds == 30

\* threading.Thread(target=..., daemon=True): created and not started. at is the
\* time the thread's current cycle or sweep began.
Thread(target) == [target |-> target, pc |-> "new", at |-> 0]

\* A thread whose target has returned.
Exited(thread) == [Thread(thread.target) EXCEPT !.pc = "done"]

\* Thread.is_alive(): started, and the target has not returned.
IsAlive(t) == t.pc \notin {"new", "done"}

\* An application thread outside start() and stop(); result is how its last call
\* ended.
IdleCaller ==
    [pc |-> "idle", op |-> "none", joined |-> NoThread, at |-> 0,
     result |-> "none"]

\* return (or an exception that leaves the call)
Return(c, result) == [IdleCaller EXCEPT !.op = caller[c].op, !.result = result]

\* Mutant of IsRelay: every role is taken for the relay role.
RoleIgnored == TRUE

\* Config.is_relay(), Config.is_node()
IsRelay == role = "relay"

IsNode == role = "node"

\* _push_to_relay, _push_channel_amplitude_to_relay: `if not url or not api_key`
\* is false, so that a POST is attempted
RelayConfigured == relay_url # None /\ relay_api_key # None

\* Mutant of GetChannelScanConfig: the channel scan counts as enabled whatever
\* the configuration says.
ChannelScanAlwaysConfigured == TRUE

\* MonitoringScheduler._get_channel_scan_config(), as a truth value
GetChannelScanConfig == scan_enabled

\* What LocalWiFiCollector.collect() added to the result of _collect_all: the
\* metric keys, Null for a key that is absent.  NoMetrics: collect() returned {}
\* or raised.
NoMetrics ==
    [deauth_count |-> Null, disassoc_count |-> Null,
     local_wifi_signal_dbm |-> Null, local_wifi_noise_dbm |-> Null,
     rf_jam_detected |-> Null]

Acquisitions ==
    { NoMetrics,
      [NoMetrics EXCEPT !.deauth_count = 7, !.disassoc_count = 0,
                        !.rf_jam_detected = 0] }

\* MonitoringScheduler._collect_all(): the timestamp, and what each collector
\* adds to it
CollectAll == IF collectors = {} THEN {NoMetrics} ELSE Acquisitions

\* Mutant of NoDataCollected: no collected map is taken for empty.
SomeDataAlways(data) == FALSE

\* len(measurement) <= 1: nothing but the timestamp
NoDataCollected(data) == data = NoMetrics

\* _slim_measurement(self._collect_all()): the slim keys of the collected map
\* (the collector sets neither node_id nor wifi_channel, wifi_util_pct, noise_dbm)
SlimMeasurement(timestamp, data) ==
    [timestamp |-> timestamp, node_id |-> None,
     wifi_channel |-> Null, wifi_util_pct |-> Null, noise_dbm |-> Null,
     deauth_count |-> data.deauth_count,
     disassoc_count |-> data.disassoc_count,
     local_wifi_signal_dbm |-> data.local_wifi_signal_dbm,
     local_wifi_noise_dbm |-> data.local_wifi_noise_dbm,
     rf_jam_detected |-> data.rf_jam_detected]

\* devices.local_wifi.channel_scan.channels
SweepChannels == <<1, 6>>

\* LocalWiFiCollector.collect_per_channel: one sample per channel, or an
\* exception (no samples).
SweepOutcomes ==
    { [raised |-> TRUE, samples |-> <<>>],
      [raised |-> FALSE,
       samples |-> [i \in 1..Len(SweepChannels) |->
                       [channel |-> SweepChannels[i], signal_dbm |-> Null,
                        noise_dbm |-> Null]]] }

\* Mutant of InsertSweep: the samples of a sweep are not stored.
InsertSweepSkipped(table, when, node_id, samples) == table

\* for s in samples: self.database.insert_channel_amplitude(when, node_id, ...)
RECURSIVE InsertSweep(_, _, _, _)
InsertSweep(table, when, node_id, samples) ==
    IF samples = <<>> THEN table
    ELSE InsertSweep(InsertChannelAmplitude(table, when, node_id,
                                             Head(samples).channel,
                                             Head(samples).signal_dbm,
                                             Head(samples).noise_dbm),
                     when, node_id, Tail(samples))

\* Mutant of AlreadyRunning: start() does not look at the flag.
AlreadyRunningIgnored(flag) == FALSE

\* start(): `if self.running:`
AlreadyRunning(flag) == flag

\* Thread.join(timeout=...) returns when the thread has exited or the timeout
\* has elapsed.
JoinReturns(alive, timed_out) == ~alive \/ timed_out

\* What no step of the scheduler changes.
scheduler_frame ==
    <<detector_vars, relay_api_key, nodes, now, handler, resolved,
      scheduler_config, clock, timer, other_vars>>

\* An application thread calls start() or stop() (the first idle one: which
\* thread makes a call makes no difference to the call).
BeginCall(c) ==
    /\ caller[c].pc = "idle"
    /\ \A d \in Callers : d < c => caller[d].pc # "idle"
    /\ calls < MaxSchedulerCalls
    /\ calls' = calls + 1

\* start(), the test of self.running
Start(c) ==
    /\ BeginCall(c)
    /\ caller' = [caller EXCEPT ![c] =
           IF AlreadyRunning(running)
           THEN [IdleCaller EXCEPT !.op = "start", !.result = "already_running"]
           ELSE [IdleCaller EXCEPT !.op = "start", !.pc = "start_set"]]
    /\ UNCHANGED <<scheduler_frame, measurement, monitoring_data, channel_amplitude, running,
                   monitor_thread, channel_scan_thread, last_collection_time,
                   threads, cycles, sweeps, push_log>>

\* start(): self.running = True and
\* self._monitor_thread = threading.Thread(target=self._run_continuous).  (One
\* step: no other thread reads the new value of one field and the old value of
\* the other.)
StartSet(c) ==
    /\ caller[c].pc = "start_set"
    /\ running' = TRUE
    /\ threads' = Append(threads, Thread("run_continuous"))
    /\ monitor_thread' = Len(threads) + 1
    /\ caller' = [caller EXCEPT ![c].pc = "start_monitor_start"]
    /\ UNCHANGED <<scheduler_frame, measurement, monitoring_data, channel_amplitude,
                   channel_scan_thread, last_collection_time, calls, cycles,
                   sweeps, push_log>>

\* start(): self._monitor_thread.start() on the thread the field refers to
\* now (Thread.start() raises RuntimeError when it has been started before),
\* then `if scan and "local_wifi" in self.collectors:` and the creation of
\* self._channel_scan_thread
StartMonitorStart(c) ==
    /\ caller[c].pc = "start_monitor_start"
    /\ IF threads[monitor_thread].pc # "new"
       THEN /\ caller' = [caller EXCEPT ![c] = Return(c, "RuntimeError")]
            /\ UNCHANGED <<threads, channel_scan_thread>>
       ELSE IF GetChannelScanConfig /\ "local_wifi" \in collectors
       THEN /\ threads' = Append([threads EXCEPT ![monitor_thread].pc = "while"],
                                 Thread("run_channel_scan_loop"))
            /\ channel_scan_thread' = Len(threads) + 1
            /\ caller' = [caller EXCEPT ![c].pc = "start_scan_start"]
       ELSE /\ threads' = [threads EXCEPT ![monitor_thread].pc = "while"]
            /\ caller' = [caller EXCEPT ![c] = Return(c, "started")]
            /\ UNCHANGED channel_scan_thread
    /\ UNCHANGED <<scheduler_frame, measurement, monitoring_data, channel_amplitude, running,
                   monitor_thread, last_collection_time, calls, cycles, sweeps,
                   push_log>>

\* start(): self._channel_scan_thread.start() on the thread the field refers
\* to now
StartScanStart(c) ==
    /\ caller[c].pc = "start_scan_start"
    /\ IF threads[channel_scan_thread].pc # "new"
       THEN /\ caller' = [caller EXCEPT ![c] = Return(c, "RuntimeError")]
            /\ UNCHANGED threads
       ELSE /\ threads' = [threads EXCEPT ![channel_scan_thread].pc = "scan_while"]
            /\ caller' = [caller EXCEPT ![c] = Return(c, "started")]
    /\ UNCHANGED <<scheduler_frame, measurement, monitoring_data, channel_amplitude, running,
                   monitor_thread, channel_scan_thread, last_collection_time,
                   calls, cycles, sweeps, push_log>>

\* stop(), the test of self.running
Stop(c) ==
    /\ BeginCall(c)
    /\ caller' = [caller EXCEPT ![c] =
           IF ~running
           THEN [IdleCaller EXCEPT !.op = "stop", !.result = "not_running"]
           ELSE [IdleCaller EXCEPT !.op = "stop", !.pc = "stop_set"]]
    /\ UNCHANGED <<scheduler_frame, measurement, monitoring_data, channel_amplitude, running,
                   monitor_thread, channel_scan_thread, last_collection_time,
                   threads, cycles, sweeps, push_log>>

\* stop(): self.running = False
StopSet(c) ==
    /\ caller[c].pc = "stop_set"
    /\ running' = FALSE
    /\ caller' = [caller EXCEPT ![c].pc = "stop_scan"]
    /\ UNCHANGED <<scheduler_frame, measurement, monitoring_data, channel_amplitude,
                   monitor_thread, channel_scan_thread, last_collection_time,
                   threads, calls, cycles, sweeps, push_log>>

\* stop(): `if self.<field> and self.<field>.is_alive():`
TestAlive(c, field, join_pc, skip_pc) ==
    caller' = [caller EXCEPT ![c] =
        IF field # NoThread /\ IsAlive(threads[field])
        THEN [caller[c] EXCEPT !.pc = join_pc]
        ELSE IF skip_pc = "idle" THEN Return(c, "stopped")
        ELSE [caller[c] EXCEPT !.pc = skip_pc]]

\* stop(): self.<field>.join(timeout=...) is called on the thread the field
\* refers to now; Thread.join() raises RuntimeError on a thread that has not
\* been started.
CallJoin(c, field, wait_pc) ==
    caller' = [caller EXCEPT ![c] =
        IF threads[field].pc = "new" THEN Return(c, "RuntimeError")
        ELSE [caller[c] EXCEPT !.pc = wait_pc, !.joined = field]]

\* stop(): join(timeout=130) / join(timeout=120) returns
Join(c, next_pc) ==
    /\ \E timed_out \in BOOLEAN :
           JoinReturns(IsAlive(threads[caller[c].joined]), timed_out)
    /\ caller' = [caller EXCEPT ![c] =
           IF next_pc = "idle" THEN Return(c, "stopped")
           ELSE [caller[c] EXCEPT !.pc = next_pc]]

StopScanAlive(c) ==
    /\ caller[c].pc = "stop_scan"
    /\ TestAlive(c, channel_scan_thread, "stop_scan_join", "stop_monitor")
    /\ UNCHANGED <<scheduler_frame, measurement, monitoring_data, channel_amplitude, running,
                   monitor_thread, channel_scan_thread, last_collection_time,
                   threads, calls, cycles, sweeps, push_log>>

StopScanJoin(c) ==
    /\ caller[c].pc = "stop_scan_join"
    /\ CallJoin(c, channel_scan_thread, "join_scan")
    /\ UNCHANGED <<scheduler_frame, measurement, monitoring_data, channel_amplitude, running,
                   monitor_thread, channel_scan_thread, last_collection_time,
                   threads, calls, cycles, sweeps, push_log>>

JoinScan(c) ==
    /\ caller[c].pc = "join_scan"
    /\ Join(c, "stop_monitor")
    /\ UNCHANGED <<scheduler_frame, measurement, monitoring_data, channel_amplitude, running,
                   monitor_thread, channel_scan_thread, last_collection_time,
                   threads, calls, cycles, sweeps, push_log>>

StopMonitorAlive(c) ==
    /\ caller[c].pc = "stop_monitor"
    /\ TestAlive(c, monitor_thread, "stop_monitor_join", "idle")
    /\ UNCHANGED <<scheduler_frame, measurement, monitoring_data, channel_amplitude, running,
                   monitor_thread, channel_scan_thread, last_collection_time,
                   threads, calls, cycles, sweeps, push_log>>

StopMonitorJoin(c) ==
    /\ caller[c].pc = "stop_monitor_join"
    /\ CallJoin(c, monitor_thread, "join_monitor")
    /\ UNCHANGED <<scheduler_frame, measurement, monitoring_data, channel_amplitude, running,
                   monitor_thread, channel_scan_thread, last_collection_time,
                   threads, calls, cycles, sweeps, push_log>>

JoinMonitor(c) ==
    /\ caller[c].pc = "join_monitor"
    /\ Join(c, "idle")
    /\ UNCHANGED <<scheduler_frame, measurement, monitoring_data, channel_amplitude, running,
                   monitor_thread, channel_scan_thread, last_collection_time,
                   threads, calls, cycles, sweeps, push_log>>

\* The threads created so far.
ThreadIds == 1..Len(threads)

\* Each start() creates at most two threads.
MaxThreads == 2 * MaxSchedulerCalls

\* Mutant of PushToRelay: a POST that failed is sent a second time.
PushToRelayRetried(log, endpoint, when, ok) ==
    LET attempt == [endpoint |-> endpoint, when |-> when, ok |-> ok]
    IN  IF ok THEN Append(log, attempt) ELSE Append(Append(log, attempt), attempt)

\* _push_to_relay / _push_channel_amplitude_to_relay past the test of the URL
\* and the key: one urlopen of the endpoint, which answers 2xx (ok) or fails
PushToRelay(log, endpoint, when, ok) ==
    Append(log, [endpoint |-> endpoint, when |-> when, ok |-> ok])

\* Mutant of LoopRunning: the loops never see the flag cleared.
LoopRunningAlways(flag) == TRUE

\* `while self.running:` and `if not self.running: break`, as read by a loop
LoopRunning(flag) == flag

\* _run_continuous: `while self.running:` (after the sleep of the iteration
\* before, if any); with collectors the loop enters _run_collection_cycle,
\* without it sleeps 5 s and comes back here
LoopWhile(t) ==
    /\ threads[t].target = "run_continuous"
    /\ threads[t].pc = "while"
    /\ IF ~LoopRunning(running)
       THEN /\ threads' = [threads EXCEPT ![t] = Exited(@)]
            /\ UNCHANGED cycles
       ELSE IF collectors # {}
       THEN /\ cycles < MaxCycles
            /\ cycles' = cycles + 1
            /\ threads' = [threads EXCEPT ![t].pc = "cycle", ![t].at = cycles + 1]
       ELSE UNCHANGED <<threads, cycles>>
    /\ UNCHANGED <<scheduler_frame, measurement, monitoring_data, channel_amplitude, running,
                   monitor_thread, channel_scan_thread, last_collection_time,
                   caller, calls, sweeps, push_log>>

\* _run_collection_cycle: what the cycle does with the collected data (data),
\* given the outcome of the push (push_ok)
CollectionCycle(at, data, push_ok) ==
    LET slim == SlimMeasurement(at, data)
    IN  IF NoDataCollected(data)
        THEN UNCHANGED <<monitoring_data, last_collection_time, push_log>>
        ELSE IF IsRelay
        THEN /\ monitoring_data' = InsertMeasurement(monitoring_data, slim)
             /\ last_collection_time' = at
             /\ UNCHANGED push_log
        ELSE IF IsNode /\ RelayConfigured
        THEN /\ push_log' = PushToRelay(push_log, "measurements", at, push_ok)
             /\ last_collection_time' =
                    IF push_ok THEN at ELSE last_collection_time
             /\ UNCHANGED monitoring_data
        ELSE UNCHANGED <<monitoring_data, last_collection_time, push_log>>

\* _run_continuous: _run_collection_cycle returns; the loop sleeps for what is
\* left of the capture interval, if anything, and comes back to its test
LoopCycle(t, data, push_ok) ==
    /\ threads[t].target = "run_continuous"
    /\ threads[t].pc = "cycle"
    /\ measurement' = data
    /\ CollectionCycle(threads[t].at, data, push_ok)
    /\ threads' = [threads EXCEPT ![t].pc = "while", ![t].at = 0]
    /\ UNCHANGED <<scheduler_frame, channel_amplitude, running, monitor_thread,
                   channel_scan_thread, caller, calls, cycles, sweeps>>

\* run_once(), called by an application thread: _run_collection_cycle begins
RunOnce(c) ==
    /\ BeginCall(c)
    /\ cycles < MaxCycles
    /\ cycles' = cycles + 1
    /\ caller' = [caller EXCEPT ![c] =
           [IdleCaller EXCEPT !.op = "run_once", !.pc = "cycle",
                              !.at = cycles + 1]]
    /\ UNCHANGED <<scheduler_frame, measurement, monitoring_data,
                   channel_amplitude, running, monitor_thread,
                   channel_scan_thread, last_collection_time, threads, sweeps,
                   push_log>>

\* Mutant of RunOnceCycle: run_once clears the running flag when its cycle
\* returns.
RunOnceClearsRunning(c, data, push_ok) ==
    /\ caller[c].pc = "cycle"
    /\ measurement' = data
    /\ CollectionCycle(caller[c].at, data, push_ok)
    /\ caller' = [caller EXCEPT ![c] = Return(c, "done")]
    /\ running' = FALSE
    /\ UNCHANGED <<scheduler_frame, channel_amplitude, monitor_thread,
                   channel_scan_thread, threads, calls, cycles, sweeps>>

\* run_once(): its _run_collection_cycle returns, and so does the call
RunOnceCycle(c, data, push_ok) ==
    /\ caller[c].pc = "cycle"
    /\ measurement' = data
    /\ CollectionCycle(caller[c].at, data, push_ok)
    /\ caller' = [caller EXCEPT ![c] = Return(c, "done")]
    /\ UNCHANGED <<scheduler_frame, channel_amplitude, running, monitor_thread,
                   channel_scan_thread, threads, calls, cycles, sweeps>>

\* _run_channel_scan_loop, from its start: the thread returns when the scan
\* is not configured or there is no local_wifi collector; `while
\* self.running:`; first_run is True, so `if not self.running: break` follows
\* at once and collect_per_channel begins
ScanWhile(t) ==
    /\ threads[t].target = "run_channel_scan_loop"
    /\ threads[t].pc = "scan_while"
    /\ IF ~(GetChannelScanConfig /\ "local_wifi" \in collectors)
          \/ ~LoopRunning(running)
       THEN /\ threads' = [threads EXCEPT ![t] = Exited(@)]
            /\ UNCHANGED sweeps
       ELSE /\ sweeps < MaxSweeps
            /\ sweeps' = sweeps + 1
            /\ threads' = [threads EXCEPT ![t].pc = "sweep", ![t].at = sweeps + 1]
    /\ UNCHANGED <<scheduler_frame, measurement, monitoring_data, channel_amplitude, running,
                   monitor_thread, channel_scan_thread, last_collection_time,
                   caller, calls, cycles, push_log>>

\* _run_channel_scan_loop: time.sleep(interval_sec) returns; `if not
\* self.running: break`, and collect_per_channel begins
ScanCheck(t) ==
    /\ threads[t].target = "run_channel_scan_loop"
    /\ threads[t].pc = "scan_sleep"
    /\ IF ~LoopRunning(running)
       THEN /\ threads' = [threads EXCEPT ![t] = Exited(@)]
            /\ UNCHANGED sweeps
       ELSE /\ sweeps < MaxSweeps
            /\ sweeps' = sweeps + 1
            /\ threads' = [threads EXCEPT ![t].pc = "sweep", ![t].at = sweeps + 1]
    /\ UNCHANGED <<scheduler_frame, measurement, monitoring_data, channel_amplitude, running,
                   monitor_thread, channel_scan_thread, last_collection_time,
                   caller, calls, cycles, push_log>>

\* `while self.running:` at the end of an iteration of _run_channel_scan_loop,
\* and, on this later run, the sleep for the scan interval
AfterSweep(thread) ==
    IF LoopRunning(running) THEN [thread EXCEPT !.pc = "scan_sleep", !.at = 0]
    ELSE Exited(thread)

\* The sweep is pushed: node role, a relay URL, and in
\* _push_channel_amplitude_to_relay an API key and at least one sample
SweepPushed(samples) == IsNode /\ RelayConfigured /\ samples # <<>>

\* _run_channel_scan_loop: collect_per_channel returns or raises; the samples
\* are inserted (node_id is None: Config has no _node_id); the loop goes on to
\* the push, or to `while self.running:` when nothing is pushed
ScanSweep(t, outcome) ==
    /\ threads[t].target = "run_channel_scan_loop"
    /\ threads[t].pc = "sweep"
    /\ channel_amplitude' =
           InsertSweep(channel_amplitude, threads[t].at, None, outcome.samples)
    /\ threads' = [threads EXCEPT ![t] =
           IF ~outcome.raised /\ SweepPushed(outcome.samples)
           THEN [@ EXCEPT !.pc = "push"]
           ELSE AfterSweep(@)]
    /\ UNCHANGED <<scheduler_frame, measurement, monitoring_data, running, monitor_thread,
                   channel_scan_thread, last_collection_time, caller, calls,
                   cycles, sweeps, push_log>>

\* _run_channel_scan_loop: _push_channel_amplitude_to_relay(self.config, when,
\* samples) returns (its result is only logged); back to `while self.running:`
ScanPush(t, push_ok) ==
    /\ threads[t].target = "run_channel_scan_loop"
    /\ threads[t].pc = "push"
    /\ push_log' =
           PushToRelay(push_log, "channel_amplitude", threads[t].at, push_ok)
    /\ threads' = [threads EXCEPT ![t] = AfterSweep(@)]
    /\ UNCHANGED <<scheduler_frame, measurement, monitoring_data, channel_amplitude, running,
                   monitor_thread, channel_scan_thread, last_collection_time,
                   caller, calls, cycles, sweeps>>

(***************************************************************************)
(* _run_continuous with its clock: the rate cap                            *)
(***************************************************************************)
\* Bound: the seconds of scheduler run that are followed.
MaxClock == 40

\* Bound: the grain of the clock, in seconds (what takes less reads as 0).
TickSeconds == 10

\* A loop thread that has begun no cycle and is not asleep.  began: when its
\* first cycle began; completed: the cycles it has completed.
NoTimer == [began |-> Null, start |-> Null, wake |-> Null, completed |-> 0]

\* interval = max(1, lw.get("monitor_capture_seconds", 30))
Interval(seconds) == IF seconds > 1 THEN seconds ELSE 1

\* Scheduler run time passes (the clock stands while no loop thread is alive).
Tick ==
    /\ clock + TickSeconds <= MaxClock
    /\ \E t \in ThreadIds : IsAlive(threads[t])
    /\ clock' = clock + TickSeconds
    /\ UNCHANGED <<detector_vars, relay_vars, other_vars, scheduler_config, timer,
                   measurement, running, monitor_thread, channel_scan_thread,
                   last_collection_time, threads, caller, calls, cycles, sweeps,
                   push_log>>

timed_frame ==
    <<detector_vars, relay_api_key, nodes, now, handler, resolved,
      scheduler_config, clock, other_vars>>

\* _run_continuous: `while self.running:`, and `start = time.time()` when the
\* loop goes on
TimedLoopWhile(t) ==
    /\ threads[t].target = "run_continuous"
    /\ threads[t].pc = "while"
    /\ IF ~LoopRunning(running)
       THEN /\ threads' = [threads EXCEPT ![t] = Exited(@)]
            /\ timer' = [timer EXCEPT ![t] = NoTimer]
            /\ UNCHANGED cycles
       ELSE IF collectors # {}
       THEN /\ cycles < MaxCycles
            /\ cycles' = cycles + 1
            /\ threads' = [threads EXCEPT ![t].pc = "cycle", ![t].at = cycles + 1]
            /\ timer' = [timer EXCEPT ![t].start = clock,
                                      ![t].began = IF @ = Null THEN clock ELSE @]
       ELSE UNCHANGED <<threads, cycles, timer>>
    /\ UNCHANGED <<timed_frame, measurement, monitoring_data, channel_amplitude,
                   running, monitor_thread, channel_scan_thread,
                   last_collection_time, caller, calls, sweeps, push_log>>

\* _run_continuous: _run_collection_cycle returns; elapsed = time.time() - start;
\* sleep_for = interval - elapsed; `if sleep_for > 0 and self.running:` the
\* thread goes to sleep, else back to the `while` test
TimedLoopCycle(t, data, push_ok) ==
    LET elapsed == clock - timer[t].start
        sleep_for == Interval(capture_seconds) - elapsed
    IN  /\ threads[t].target = "run_continuous"
        /\ threads[t].pc = "cycle"
        /\ measurement' = data
        /\ CollectionCycle(threads[t].at, data, push_ok)
        /\ IF "local_wifi" \in collectors /\ sleep_for > 0 /\ running
           THEN /\ threads' = [threads EXCEPT ![t].pc = "sleep", ![t].at = 0]
                /\ timer' = [timer EXCEPT ![t].wake = clock + sleep_for,
                                          ![t].completed = @ + 1]
           ELSE /\ threads' = [threads EXCEPT ![t].pc = "while", ![t].at = 0]
                /\ timer' = [timer EXCEPT ![t].completed = @ + 1]
        /\ UNCHANGED <<timed_frame, channel_amplitude, running, monitor_thread,
                       channel_scan_thread, caller, calls, cycles, sweeps>>

\* _run_continuous: time.sleep(sleep_for) returns, not before its time
TimedWake(t) ==
    /\ threads[t].target = "run_continuous"
    /\ threads[t].pc = "sleep"
    /\ clock >= timer[t].wake
    /\ threads' = [threads EXCEPT ![t].pc = "while"]
    /\ timer' = [timer EXCEPT ![t].wake = Null]
    /\ UNCHANGED <<timed_frame, measurement, monitoring_data, channel_amplitude,
                   running, monitor_thread, channel_scan_thread,
                   last_collection_time, caller, calls, cycles, sweeps, push_log>>

(***************************************************************************)
(* Database._lock around the mutating operations                           *)
(***************************************************************************)
\* Bound: calls of mutating storage operations made in one run.
MaxWrites == 3

\* The threads that share one Database: the primary loop (1), the channel-sweep
\* loop (2) and a request handler of the relay (3).
Writers == {1, 2, 3}

MutatingOperations ==
    {"insert_measurement", "insert_channel_amplitude", "upsert_node",
     "touch_node_last_seen"}

\* The operations each thread calls: _run_collection_cycle inserts measurements,
\* _run_channel_scan_loop inserts channel samples, a handler calls all four.
WriterOperations(w) ==
    IF w = 1 THEN {"insert_measurement"}
    ELSE IF w = 2 THEN {"insert_channel_amplitude"}
    ELSE MutatingOperations

\* A thread outside the mutating operations; result is how its last call ended.
IdleWriter == [pc |-> "idle", op |-> "none", at |-> 0, result |-> "none"]

\* Mutant of LockFree: the lock is never seen as held.
LockAlwaysFree(lock) == TRUE

\* threading.Lock: acquire() goes through when no thread holds the lock
LockFree(lock) == lock = NoThread

\* The threads between `with self._lock:` and the end of the operation.
InsideOperation == { w \in Writers : writer[w].pc \in {"inside", "leaving"} }

storage_frame ==
    <<detector_vars, scheduler_vars, inference_vars, relay_api_key, handler,
      resolved>>

\* A mutating operation is called: the part before `with self._lock:`
StorageCall(w, op) ==
    /\ writer[w].pc = "idle"
    /\ op \in WriterOperations(w)
    /\ now < MaxWrites
    /\ now' = now + 1
    /\ writer' = [writer EXCEPT ![w] =
           [pc |-> "waiting", op |-> op, at |-> now + 1, result |-> "none"]]
    /\ UNCHANGED <<storage_frame, tables, db_lock>>

\* `with self._lock:`, entered
StorageAcquire(w) ==
    /\ writer[w].pc = "waiting"
    /\ LockFree(db_lock)
    /\ db_lock' = w
    /\ writer' = [writer EXCEPT ![w].pc = "inside"]
    /\ UNCHANGED <<storage_frame, tables, now>>

\* The statement under the lock: execute and commit, or sqlite3.Error (after
\* which insert_measurement rolls back and re-raises, and the others let the
\* exception through)
StorageExecute(w, ok) ==
    LET h == writer[w]
    IN  /\ h.pc = "inside"
        /\ writer' = [writer EXCEPT ![w].pc = "leaving",
                                    ![w].result = IF ok THEN "ok" ELSE "raised"]
        /\ monitoring_data' =
               IF ok /\ h.op = "insert_measurement"
               THEN InsertMeasurement(monitoring_data,
                                      SlimMeasurement(h.at, NoMetrics))
               ELSE monitoring_data
        /\ channel_amplitude' =
               IF ok /\ h.op = "insert_channel_amplitude"
               THEN InsertChannelAmplitude(channel_amplitude, h.at, None, 1,
                                           Null, Null)
               ELSE channel_amplitude
        /\ nodes' =
               IF ok /\ h.op = "upsert_node"
               THEN UpsertNode(nodes, NodeIdOf(Sha256("k1")), NoName, Null, Null,
                               Sha256("k1"), h.at)
               ELSE IF ok /\ h.op = "touch_node_last_seen"
               THEN TouchNodeLastSeen(nodes, NodeIdOf(Sha256("k1")), h.at)
               ELSE nodes
        /\ UNCHANGED <<storage_frame, now, db_lock>>

\* The end of the `with` block, by return or by an exception
StorageRelease(w) ==
    /\ writer[w].pc = "leaving"
    /\ db_lock' = NoThread
    /\ writer' = [writer EXCEPT ![w].pc = "idle"]
    /\ UNCHANGED <<storage_frame, tables, now>>

(***************************************************************************)
(* InferenceEngine (src/src/iwc/analysis/inference_engine.py)              *)
(***************************************************************************)
\* Bound: the longest context window passed to generate_inferences.
MaxContextRows == 2

\* The events a caller passes: get_event_inferences builds them from a
\* dictionary, whose metrics may be empty (<<>>) or carry another key.
InferenceEventTypes == {"deauth_burst", "rf_jamming", "disassoc_burst", "latency_spike"}

InferenceMetrics ==
    { <<>>, <<"deauth_count", 7>>, <<"deauth_count", 25>>,
      <<"disassoc_count", 12>>, <<"rf_jam_detected", 1>> }

InferenceEvents ==
    { [event_id |-> <<type, 300>>, event_type |-> type, severity |-> "severe",
       timestamp |-> 300, metrics |-> m] :
         type \in InferenceEventTypes, m \in InferenceMetrics }

NoEvent ==
    [event_id |-> <<"none", 0>>, event_type |-> "none", severity |-> "none",
     timestamp |-> 0, metrics |-> <<>>]

ContextWindows ==
    { [i \in 1..n |-> [timestamp |-> 300, deauth_count |-> 6,
                       disassoc_count |-> 5, rf_jam_detected |-> Null]] :
         n \in 0..MaxContextRows }

NotCalled == [called |-> FALSE, result |-> <<>>]

\* event.metrics.get(key, default)
MetricsGet(metrics, key, default) ==
    IF metrics # <<>> /\ metrics[1] = key THEN metrics[2] ELSE default

\* Inference(cause_type, confidence, description, evidence, related_metrics)
Inference(cause_type, confidence, evidence, related_metrics) ==
    [cause_type |-> cause_type, confidence |-> confidence,
     evidence |-> evidence, related_metrics |-> related_metrics]

\* confidence_order.get(x.confidence, 0)
ConfidenceOrder(confidence) ==
    CASE confidence = "high" -> 3
      [] confidence = "medium" -> 2
      [] confidence = "low" -> 1
      [] OTHER -> 0

\* inferences.sort(key=..., reverse=True): stable, highest confidence first
RECURSIVE SortByConfidence(_)
SortByConfidence(list) ==
    IF list = <<>> THEN <<>>
    ELSE LET rest == SortByConfidence(Tail(list))
             x == Head(list)
             before == SelectSeq(rest, LAMBDA y :
                           ConfidenceOrder(y.confidence) > ConfidenceOrder(x.confidence))
             after == SelectSeq(rest, LAMBDA y :
                           ConfidenceOrder(y.confidence) <= ConfidenceOrder(x.confidence))
         IN  before \o <<x>> \o after

\* Mutant of ContextEmpty: the context window is never taken as empty.
ContextNeverEmpty(context) == FALSE

\* context_data.empty
ContextEmpty(context) == context = <<>>

\* InferenceEngine.generate_inferences(event, context_data)
GenerateInferencesResult(ev, context) ==
    IF ContextEmpty(context) THEN <<>>
    ELSE SortByConfidence(
        IF ev.event_type = "deauth_burst"
        THEN LET count == MetricsGet(ev.metrics, "deauth_count", 0)
             IN  <<Inference("wifi_deauth", "high", <<"deauth_count", count>>,
                             <<"deauth_count", count>>)>>
        ELSE IF ev.event_type = "rf_jamming"
        THEN <<Inference("wifi_rf_jamming", "medium",
                         <<"rf_jam_detected",
                           MetricsGet(ev.metrics, "rf_jam_detected", 1)>>,
                         <<>>)>>
        ELSE IF ev.event_type = "disassoc_burst"
        THEN LET count == MetricsGet(ev.metrics, "disassoc_count", 0)
             IN  <<Inference("wifi_disassoc", "high", <<"disassoc_count", count>>,
                             <<"disassoc_count", count>>)>>
        ELSE <<>>)

\* inferences = self.inference_engine.generate_inferences(network_event, df)
GenerateInferences ==
    /\ ~inferences.called
    /\ inferences' = [called |-> TRUE,
                      result |-> GenerateInferencesResult(network_event, context_data)]
    /\ UNCHANGED <<detector_vars, relay_vars, scheduler_vars, storage_vars, network_event,
                   context_data>>

(***************************************************************************)
(* Initial states and specifications                                       *)
(***************************************************************************)
DetectorInit ==
    /\ thresholds \in ThresholdConfigs
    /\ df = <<>>
    /\ df_passed = <<>>
    /\ threshold_events = <<>>
    /\ events = <<>>
    /\ prev_events = <<>>
    /\ ncalls = 0

\* An empty store; the relay runs with a shared credential (k1) or in open mode.
RelayInit ==
    /\ relay_api_key \in {None, "k1"}
    /\ nodes = {}
    /\ monitoring_data = <<>>
    /\ channel_amplitude = <<>>
    /\ now = 0
    /\ handler = [w \in Workers |-> IdleHandler]
    /\ resolved = [k \in Keys |-> {}]

\* A scheduler that has been constructed and not started.
SchedulerInit ==
    /\ role \in {"relay", "node"}
    /\ scan_enabled \in BOOLEAN
    /\ collectors \in {{}, {"local_wifi"}}
    /\ running = FALSE
    /\ monitor_thread = NoThread
    /\ channel_scan_thread = NoThread
    /\ last_collection_time = Null
    /\ threads = <<>>
    /\ caller = [c \in Callers |-> IdleCaller]
    /\ calls = 0
    /\ cycles = 0
    /\ sweeps = 0
    /\ push_log = <<>>
    /\ measurement = NoMetrics
    /\ relay_url \in {None, "url"}
    /\ clock = 0
    /\ timer = [t \in 1..MaxThreads |-> NoTimer]
    /\ capture_seconds = DefaultCaptureSeconds

\* No thread is inside a storage operation.
StorageInit ==
    /\ db_lock = NoThread
    /\ writer = [w \in Writers |-> IdleWriter]

\* generate_inferences is not called.
InferenceOff ==
    /\ network_event = NoEvent
    /\ context_data = <<>>
    /\ inferences = NotCalled

OtherOff == StorageInit /\ InferenceOff

\* A relay without a local collector, whose scheduler is not started.
SchedulerOff ==
    /\ SchedulerInit
    /\ role = "relay"
    /\ ~scan_enabled
    /\ collectors = {}
    /\ relay_url = None

\* A row arrives in the queried window (the next query sees one more row; rows of
\* different nodes come in no particular timestamp order).
AppendRow(row) ==
    /\ Len(df) < MaxRows
    /\ df' = Append(df, row)
    /\ df_passed' = <<>>
    /\ threshold_events' = <<>>
    /\ events' = <<>>
    /\ prev_events' = <<>>
    /\ ncalls' = 0
    /\ UNCHANGED <<thresholds, relay_vars, scheduler_vars, other_vars>>

\* events = detector.detect_events(df)
DetectEvents ==
    /\ ncalls < MaxCalls
    /\ df_passed' = df
    /\ df' = CallerFrameAfter(df)
    /\ prev_events' = events
    /\ threshold_events' = ThresholdEventsOf(df, thresholds)
    /\ events' = DetectEventsResult(df, thresholds)
    /\ ncalls' = ncalls + 1
    /\ UNCHANGED <<thresholds, relay_vars, scheduler_vars, other_vars>>

\* The detector on the windows a caller passes; the relay is not running.
InitDetector ==
    /\ DetectorInit
    /\ RelayInit
    /\ relay_api_key = None
    /\ SchedulerOff
    /\ OtherOff

NextDetector ==
    \/ \E row \in Rows : AppendRow(row)
    \/ DetectEvents

SpecDetector == InitDetector /\ [][NextDetector]_vars

\* The relay serving requests; no window is queried.
InitRelay ==
    /\ RelayInit
    /\ DetectorInit
    /\ thresholds.deauth_count_threshold = Null
    /\ SchedulerOff
    /\ OtherOff

NextRelay ==
    \/ \E w \in Workers, r \in Requests : ApiMeasurements(w, r)
    \/ \E w \in Workers : MeasurementsRegister(w)
    \/ \E w \in Workers : MeasurementsLookup(w)
    \/ \E w \in Workers : MeasurementsUpdate(w)
    \/ \E w \in Workers : MeasurementsInsert(w)
    \/ \E w \in Workers : MeasurementsTouch(w)
    \/ \E w \in Workers, r \in Requests : ApiChannelAmplitude(w, r)
    \/ \E w \in Workers : ChannelRegister(w)
    \/ \E w \in Workers : ChannelLookup(w)
    \/ \E w \in Workers : ChannelInsertSample(w)
    \/ \E w \in Workers : ChannelTouch(w)
    \/ \E w \in Workers, r \in Requests : ApiConfig(w, r)

SpecRelay == InitRelay /\ [][NextRelay]_vars

\* A relay has neither relay URL nor API key; a node has both.
RoleConfigured ==
    /\ relay_url = IF IsNode THEN "url" ELSE None
    /\ relay_api_key = IF IsNode THEN "k1" ELSE None

\* The scheduler, called by the application threads; no request arrives and no
\* window is queried.
InitScheduler ==
    /\ SchedulerInit
    /\ DetectorInit
    /\ thresholds.deauth_count_threshold = Null
    /\ RelayInit
    /\ RoleConfigured
    /\ OtherOff

NextScheduler ==
    \/ \E c \in Callers : Start(c)
    \/ \E c \in Callers : StartSet(c)
    \/ \E c \in Callers : StartMonitorStart(c)
    \/ \E c \in Callers : StartScanStart(c)
    \/ \E c \in Callers : Stop(c)
    \/ \E c \in Callers : StopSet(c)
    \/ \E c \in Callers : StopScanAlive(c)
    \/ \E c \in Callers : StopScanJoin(c)
    \/ \E c \in Callers : JoinScan(c)
    \/ \E c \in Callers : StopMonitorAlive(c)
    \/ \E c \in Callers : StopMonitorJoin(c)
    \/ \E c \in Callers : JoinMonitor(c)
    \/ \E t \in ThreadIds : LoopWhile(t)
    \/ \E t \in ThreadIds, data \in CollectAll, push_ok \in BOOLEAN :
           LoopCycle(t, data, push_ok)
    \/ \E t \in ThreadIds : ScanWhile(t)
    \/ \E t \in ThreadIds : ScanCheck(t)
    \/ \E t \in ThreadIds, outcome \in SweepOutcomes : ScanSweep(t, outcome)
    \/ \E t \in ThreadIds, push_ok \in BOOLEAN : ScanPush(t, push_ok)

SpecScheduler == InitScheduler /\ [][NextScheduler]_vars

\* The scheduler driven by one application thread (main.py: run_once, or start
\* and then stop from the signal handler), in every configuration of role, relay
\* endpoint, relay key, channel scan and collectors.
MainThread == 1

InitMain ==
    /\ SchedulerInit
    /\ DetectorInit
    /\ thresholds.deauth_count_threshold = Null
    /\ RelayInit
    /\ OtherOff

LoopStep(t) ==
    \/ LoopWhile(t)
    \/ \E data \in CollectAll, push_ok \in BOOLEAN : LoopCycle(t, data, push_ok)
    \/ ScanWhile(t)
    \/ ScanCheck(t)
    \/ \E outcome \in SweepOutcomes : ScanSweep(t, outcome)
    \/ \E push_ok \in BOOLEAN : ScanPush(t, push_ok)

\* The steps of the main thread that do not depend on a channel-scan thread.
PrimaryStep ==
    \/ Start(MainThread)
    \/ StartSet(MainThread)
    \/ StartMonitorStart(MainThread)
    \/ Stop(MainThread)
    \/ StopSet(MainThread)
    \/ StopScanAlive(MainThread)
    \/ StopMonitorAlive(MainThread)
    \/ StopMonitorJoin(MainThread)
    \/ JoinMonitor(MainThread)
    \/ RunOnce(MainThread)
    \/ \E data \in CollectAll, push_ok \in BOOLEAN :
           RunOnceCycle(MainThread, data, push_ok)

MainStep ==
    \/ PrimaryStep
    \/ StartScanStart(MainThread)
    \/ StopScanJoin(MainThread)
    \/ JoinScan(MainThread)

NextMain ==
    \/ MainStep
    \/ \E t \in ThreadIds : LoopStep(t)

SpecMain == InitMain /\ [][NextMain]_vars

\* The same with the channel scan not enabled: the primary loop and run_once.
InitPrimary == InitMain /\ ~scan_enabled

NextPrimary ==
    \/ PrimaryStep
    \/ \E t \in ThreadIds : LoopWhile(t)
    \/ \E t \in ThreadIds, data \in CollectAll, push_ok \in BOOLEAN :
           LoopCycle(t, data, push_ok)

SpecPrimary == InitPrimary /\ [][NextPrimary]_vars

\* The primary loop with its clock, on a relay whose local_wifi collector is
\* active and whose channel scan is off, called by the application threads.
InitRateCap ==
    /\ SchedulerInit
    /\ role = "relay"
    /\ ~scan_enabled
    /\ collectors = {"local_wifi"}
    /\ DetectorInit
    /\ thresholds.deauth_count_threshold = Null
    /\ RelayInit
    /\ RoleConfigured
    /\ OtherOff

NextRateCap ==
    \/ \E c \in Callers : Start(c)
    \/ \E c \in Callers : StartSet(c)
    \/ \E c \in Callers : StartMonitorStart(c)
    \/ \E c \in Callers : Stop(c)
    \/ \E c \in Callers : StopSet(c)
    \/ \E c \in Callers : StopScanAlive(c)
    \/ \E c \in Callers : StopMonitorAlive(c)
    \/ \E c \in Callers : StopMonitorJoin(c)
    \/ \E c \in Callers : JoinMonitor(c)
    \/ \E t \in ThreadIds : TimedLoopWhile(t)
    \/ \E t \in ThreadIds, data \in CollectAll, push_ok \in BOOLEAN :
           TimedLoopCycle(t, data, push_ok)
    \/ \E t \in ThreadIds : TimedWake(t)
    \/ Tick

SpecRateCap == InitRateCap /\ [][NextRateCap]_vars

\* The same, with the loop threads scheduled: a started thread is not left
\* waiting for ever, and each of its steps ends (the acquisition is capped, the
\* POSTs have a timeout, the sleeps are finite).  Nothing is assumed of the
\* application thread.
ScheduledLoopStep(t) == t \in ThreadIds /\ LoopStep(t)

SpecMainScheduled ==
    SpecMain /\ \A t \in 1..MaxThreads : WF_vars(ScheduledLoopStep(t))

\* Threads in the mutating operations of one Database: a relay with its own
\* collector; the steps of the scheduler and of the handlers outside the
\* storage calls are left out.
InitStorage ==
    /\ StorageInit
    /\ InferenceOff
    /\ DetectorInit
    /\ thresholds.deauth_count_threshold = Null
    /\ RelayInit
    /\ relay_api_key = None
    /\ SchedulerOff

NextStorage ==
    \/ \E w \in Writers, op \in MutatingOperations : StorageCall(w, op)
    \/ \E w \in Writers : StorageAcquire(w)
    \/ \E w \in Writers, ok \in BOOLEAN : StorageExecute(w, ok)
    \/ \E w \in Writers : StorageRelease(w)

SpecStorage == InitStorage /\ [][NextStorage]_vars

\* generate_inferences on the events and context windows a caller passes.
InitInference ==
    /\ network_event \in InferenceEvents
    /\ context_data \in ContextWindows
    /\ inferences = NotCalled
    /\ StorageInit
    /\ DetectorInit
    /\ thresholds.deauth_count_threshold = Null
    /\ RelayInit
    /\ relay_api_key = None
    /\ SchedulerOff

NextInference == GenerateInferences

SpecInference == InitInference /\ [][NextInference]_vars

(***************************************************************************)
(* Claims about EventDetector, checked under SpecDetector                  *)
(***************************************************************************)
Range(s) == { s[i] : i \in 1..Len(s) }

\* The 5-minute floor of a timestamp, as the specification words it.
Bucket(t) == (t \div 300) * 300

EventKey(e) == <<e.event_type, Bucket(e.timestamp)>>

Called == ncalls >= 1

IsSorted(s) == \A i, j \in 1..Len(s) : i < j => s[i].timestamp <= s[j].timestamp

DistinctTimestamps(s) ==
    \A i, j \in 1..Len(s) : i # j => s[i].timestamp # s[j].timestamp

\* C1: the list returned by detect_events holds at most one event per
\* (event_type, 5-minute bucket) key. The code violates it: the scan replaces the
\* first kept event of the same type, whatever its bucket.
C1_AtMostOneEventPerKey ==
    Called =>
        \A i, j \in 1..Len(events) :
            i # j => EventKey(events[i]) # EventKey(events[j])

\* C2: for every key that has a threshold event, every event returned for that
\* key has the maximum severity among the threshold events with that key. The code
\* violates it: a later event is compared with a kept event of another bucket.
C2_MaxSeverityPerKey ==
    Called =>
        \A e \in Range(events) :
            \A t \in Range(threshold_events) :
                EventKey(t) = EventKey(e)
                    => SeverityOrder(e.severity) >= SeverityOrder(t.severity)

\* C3: the timestamps of the events returned by detect_events are monotonically
\* non-decreasing in list order.
C3_TimestampsNonDecreasing == Called => IsSorted(events)

\* C3 witness: a call whose deduplication dropped a kept event for a later one of
\* the same key and higher severity, and that returned at least two events.
C3_Witness ==
    /\ Called
    /\ Len(events) >= 2
    /\ \E a, b \in Range(threshold_events) :
           /\ EventKey(a) = EventKey(b)
           /\ a.timestamp < b.timestamp
           /\ SeverityOrder(b.severity) > SeverityOrder(a.severity)
           /\ b \in Range(events)
           /\ a \notin Range(events)

\* The rows of the sorted window whose column col is non-null and strictly
\* greater than threshold.
ExceedingRows(col, threshold) ==
    LET Exceeds(r) == r[col] # Null /\ r[col] > threshold
    IN  SelectSeq(SortRows(df), Exceeds)

EventsOfType(evs, type) ==
    LET HasType(e) == e.event_type = type
    IN  SelectSeq(evs, HasType)

ScanMatches(col, type, threshold) ==
    LET rows == ExceedingRows(col, threshold)
        got == EventsOfType(threshold_events, type)
    IN  /\ Len(got) = Len(rows)
        /\ \A i \in 1..Len(got) :
               /\ got[i].timestamp = rows[i].timestamp
               /\ got[i].metrics = <<col, rows[i][col]>>

\* C4: the threshold scan emits a deauth_burst event for a row if and only if the
\* row's deauth_count is non-null and strictly greater than deauth_count_threshold
\* (default 5); the same for disassoc_count against disassoc_count_threshold, which
\* defaults to the deauth threshold.
C4_ThresholdScan ==
    Called =>
        LET deauth == IF thresholds.deauth_count_threshold = Null THEN 5
                      ELSE thresholds.deauth_count_threshold
            disassoc == IF thresholds.disassoc_count_threshold = Null THEN deauth
                        ELSE thresholds.disassoc_count_threshold
        IN  /\ ScanMatches("deauth_count", "deauth_burst", deauth)
            /\ ScanMatches("disassoc_count", "disassoc_burst", disassoc)

\* C4 witness: a scanned window with a count equal to the threshold, a count one
\* above it and a null count, in both columns.
C4_Witness ==
    /\ Called
    /\ thresholds.deauth_count_threshold = Null
    /\ \A col \in {"deauth_count", "disassoc_count"} :
           /\ \E r \in Range(df) : r[col] = 5
           /\ \E r \in Range(df) : r[col] = 6
           /\ \E r \in Range(df) : r[col] = Null
    /\ Len(EventsOfType(threshold_events, "deauth_burst")) = 1
    /\ Len(EventsOfType(threshold_events, "disassoc_burst")) = 1

RECURSIVE Orderings(_)
\* Every sequence that lists the elements at the given positions of df once.
Orderings(positions) ==
    IF positions = {} THEN {<<>>}
    ELSE UNION { { <<df[i]>> \o rest : rest \in Orderings(positions \ {i}) } :
                 i \in positions }

\* C6: for a window whose rows have pairwise distinct timestamps, every
\* permutation of the rows yields the same output list.
C6_OrderIndependent ==
    (Called /\ DistinctTimestamps(df)) =>
        \A p \in Orderings(1..Len(df)) :
            DetectEventsResult(p, thresholds) = events

\* C6 witness: a call on an unsorted window of three rows with distinct
\* timestamps that returned events of two types.
C6_Witness ==
    /\ Called
    /\ Len(df) >= 3
    /\ DistinctTimestamps(df)
    /\ ~IsSorted(df)
    /\ \E a, b \in Range(events) : a.event_type # b.event_type

\* C7: a count-based event is critical when its count > 20, severe when
\* 10 < count <= 20 and moderate otherwise; an rf_jamming event is severe; no event
\* has another severity.
C7_SeverityMapping ==
    \A e \in Range(events) \cup Range(threshold_events) :
        LET count == e.metrics[2]
        IN  /\ e.event_type \in {"deauth_burst", "disassoc_burst", "rf_jamming"}
            /\ e.event_type \in {"deauth_burst", "disassoc_burst"} =>
                   /\ count > 20 => e.severity = "critical"
                   /\ (10 < count /\ count <= 20) => e.severity = "severe"
                   /\ count <= 10 => e.severity = "moderate"
            /\ e.event_type = "rf_jamming" => e.severity = "severe"

\* C7 witness: a call that scanned counts 10, 20 and 21 and returned events of
\* the three severities' boundary counts 20 and 21 and an rf_jamming event.
C7_Witness ==
    /\ Called
    /\ \E e \in Range(threshold_events) : e.metrics[2] = 10
    /\ \E e \in Range(events) : e.metrics[2] = 20
    /\ \E e \in Range(events) : e.metrics[2] = 21
    /\ \E e \in Range(events) : e.event_type = "rf_jamming"

(***************************************************************************)
(* Claims about the relay ingestion API, checked under SpecRelay           *)
(***************************************************************************)
\* The fingerprint prefix of a credential: the first 12 hex characters of its
\* SHA-256 digest.
FingerprintPrefix(k) == Sha256(k).prefix

\* C8: all requests that carry the same credential resolve to the same node id,
\* and the id of the Node that carries a credential's fingerprint is the id the
\* credential has resolved to before.
C8_SameCredentialSameNode ==
    \A k \in Keys :
        /\ Cardinality(resolved[k]) <= 1
        /\ \A n \in nodes : n.api_key_hash = Sha256(k) => resolved[k] \subseteq {n.id}

\* C8 witness: two requests with one credential, on the two endpoints, were both
\* answered 201 with the same node id.
C8_Witness ==
    /\ handler[1].resp.status = 201
    /\ handler[2].resp.status = 201
    /\ ApiKeyOf(handler[1]) = ApiKeyOf(handler[2])
    /\ handler[1].req.endpoint # handler[2].req.endpoint
    /\ handler[1].resp.node_id = handler[2].resp.node_id

\* C9 as claimed: two different credentials never resolve to the same node id,
\* and a Node a credential has resolved to keeps that credential's fingerprint.
C9_DifferentCredentialsNeverCollide ==
    /\ \A k1, k2 \in Keys : k1 # k2 => resolved[k1] \cap resolved[k2] = {}
    /\ \A k \in Keys : \A n \in nodes :
           n.id \in resolved[k] => n.api_key_hash = Sha256(k)

\* C9 as amended: two credentials whose fingerprints differ in their first 12 hex
\* characters never resolve to the same node id, and the fingerprint stored on a
\* Node a credential has resolved to is only ever replaced by one with the same
\* 12-character prefix.
C9_DifferentPrefixesNeverCollide ==
    /\ \A k1, k2 \in Keys :
           FingerprintPrefix(k1) # FingerprintPrefix(k2)
               => resolved[k1] \cap resolved[k2] = {}
    /\ \A k \in Keys : \A n \in nodes :
           n.id \in resolved[k] => n.api_key_hash.prefix = FingerprintPrefix(k)

\* C9 witness: credentials with different fingerprint prefixes have both
\* registered and resolved, each to its own Node.
C9_Witness ==
    /\ resolved["k1"] # {}
    /\ resolved["k3"] # {}
    /\ Cardinality(nodes) = 2
    /\ \E n \in nodes : n.api_key_hash = Sha256("k1")
    /\ \E n \in nodes : n.api_key_hash = Sha256("k3")

\* A credential that is missing, or not the configured shared credential.
RejectedCredential(r) ==
    LET api_key == GetApiKey(r.headers)
    IN  api_key = "" \/ (relay_api_key # None /\ api_key # relay_api_key)

\* C10: a request whose credential is missing or is not the configured shared
\* credential is answered 401 and writes nothing; no step that answers 401 changes
\* the Measurement, ChannelAmplitudeSample or Node table (last_seen included).
C10_RejectedWritesNothing ==
    [][\A w \in Workers :
           (handler'[w] # handler[w]
            /\ (RejectedCredential(handler'[w].req) \/ handler'[w].resp.status = 401))
               => /\ handler'[w].resp.status = 401
                  /\ handler'[w].pc = "idle"
                  /\ UNCHANGED tables]_vars

\* C10 witness: with Nodes and rows in the store, a request with a credential
\* that is not the shared one has been answered 401.
C10_Witness ==
    /\ relay_api_key # None
    /\ nodes # {}
    /\ monitoring_data # <<>>
    /\ \E w \in Workers :
           /\ handler[w].resp.status = 401
           /\ ApiKeyOf(handler[w]) \notin {"", relay_api_key}
           /\ \E n \in nodes : n.last_seen < handler[w].arrived

\* The authentication decision as the specification words it: the credential is
\* non-empty, and no shared credential is configured or the credential is the
\* configured one.
PassesAuthentication(r) ==
    LET api_key == GetApiKey(r.headers)
    IN  /\ api_key # ""
        /\ (relay_api_key = None \/ api_key = relay_api_key)

\* C11: a request passes authentication if and only if its credential is
\* non-empty and either no shared credential is configured or the credential
\* equals the configured one; every other request, on any of the three routes, is
\* answered 401, and no request that passes is answered 401.
C11_AuthenticationDecision ==
    \A w \in Workers :
        handler[w].req # NoRequest =>
            ((handler[w].pc = "idle" /\ handler[w].resp.status = 401)
                 <=> ~PassesAuthentication(handler[w].req))

\* C11 witness: with a shared credential configured, a request carrying it has
\* been answered 201 and a request carrying another non-empty credential 401.
C11_Witness ==
    /\ relay_api_key # None
    /\ \E v, w \in Workers :
           /\ ApiKeyOf(handler[v]) = relay_api_key
           /\ handler[v].resp.status = 201
           /\ ApiKeyOf(handler[w]) \notin {"", relay_api_key}
           /\ handler[w].resp.status = 401

\* A POST /api/measurements that has been answered 201.
Measurement201(w) ==
    /\ handler[w].req.endpoint = "measurements"
    /\ handler[w].pc = "idle"
    /\ handler[w].resp.status = 201

\* The Measurement table holds the row of the request of h, tagged with the node
\* id the response returned.
TaggedRow(h) ==
    \E i \in 1..Len(monitoring_data), t \in h.arrived..now :
        monitoring_data[i] = MeasurementOf(h.req.body, h.resp.node_id, t)

\* The scenario of the specification: the only request so far, on a store that
\* was empty, carried deauth_count 12 and was answered 201.
FirstContactScenario(w) ==
    LET evs == DetectEventsResult(TimeSeriesData(monitoring_data), thresholds)
    IN  (now = 1 /\ handler[w].req.body.deauth_count = 12)
            => /\ Cardinality(nodes) = 1
               /\ Len(monitoring_data) = 1
               /\ monitoring_data[1].node_id = handler[w].resp.node_id
               /\ handler[w].resp.node_id # None
               /\ Len(evs) = 1
               /\ evs[1].event_type = "deauth_burst"
               /\ evs[1].severity = "severe"

\* C12 as claimed: a POST /api/measurements answered 201 has inserted exactly one
\* Measurement row, tagged with the returned node id, and has created a Node
\* record exactly when its credential was previously unseen (no Node carried its
\* fingerprint when the request looked it up); the first-contact scenario leaves
\* one Node, one Measurement and one severe deauth_burst event.
C12_NodeCreatedIffUnseen ==
    \A w \in Workers :
        Measurement201(w) =>
            /\ handler[w].inserted = 1
            /\ TaggedRow(handler[w])
            /\ (handler[w].created = 1 <=> handler[w].unseen)
            /\ FirstContactScenario(w)

\* C12 as amended: a POST /api/measurements answered 201 has inserted exactly one
\* Measurement row, tagged with the returned node id, which is the id of a Node
\* record in the store; it has created at most one Node record, and only when its
\* credential was previously unseen; the first-contact scenario leaves one Node,
\* one Measurement and one severe deauth_burst event.
C12_NodeCreatedOnlyIfUnseen ==
    \A w \in Workers :
        Measurement201(w) =>
            /\ handler[w].inserted = 1
            /\ TaggedRow(handler[w])
            /\ \E n \in nodes : n.id = handler[w].resp.node_id
            /\ handler[w].created <= 1
            /\ (handler[w].created = 1 => handler[w].unseen)
            /\ FirstContactScenario(w)

\* C12 witness: two measurement requests with previously unseen credentials were
\* both answered 201; one created the Node and the other found it created.
C12_Witness ==
    /\ Measurement201(1)
    /\ Measurement201(2)
    /\ handler[1].unseen /\ handler[1].created = 1
    /\ handler[2].unseen /\ handler[2].created = 0
    /\ Len(monitoring_data) = 2
    /\ Cardinality(nodes) = 1

\* A POST /api/channel_amplitude that has been answered 201.
Channel201(w) ==
    /\ handler[w].req.endpoint = "channel_amplitude"
    /\ handler[w].pc = "idle"
    /\ handler[w].resp.status = 201

\* A batch entry that is valid in the words of the specification: an object with
\* timestamp and channel present, whose timestamp parses.
ValidEntry(s) ==
    /\ s.is_dict
    /\ s.timestamp \notin {Null, BadIso}
    /\ s.channel # Null

\* The positions of the valid entries of a batch.
ValidEntries(batch) == { i \in 1..Len(batch) : ValidEntry(batch[i]) }

\* C13: for every POST /api/channel_amplitude answered 201, the reported stored
\* count equals the number of ChannelAmplitudeSample rows the request inserted,
\* which equals the number of valid entries of its batch; every valid entry has
\* its row in the table, tagged with the returned node id, whatever invalid
\* entries stand before or after it.
C13_StoredCountsValidEntries ==
    \A w \in Workers :
        Channel201(w) =>
            LET h == handler[w]
                batch == BodySamples(h.req.body).items
            IN  /\ h.resp.stored = h.inserted
                /\ h.inserted = Cardinality(ValidEntries(batch))
                /\ \A i \in ValidEntries(batch) :
                       \E j \in 1..Len(channel_amplitude) :
                           /\ channel_amplitude[j].node_id = h.resp.node_id
                           /\ channel_amplitude[j].timestamp = batch[i].timestamp
                           /\ channel_amplitude[j].channel = batch[i].channel

\* C13 witness: a batch of three entries whose second entry has no channel has
\* been answered 201 with stored 2, and a batch that starts with two invalid
\* entries has been answered 201 with stored 1.
C13_Witness ==
    \E v, w \in Workers :
        /\ Channel201(v)
        /\ handler[v].resp.stored = 2
        /\ Len(BodySamples(handler[v].req.body).items) = 3
        /\ BodySamples(handler[v].req.body).items[2].channel = Null
        /\ Channel201(w)
        /\ handler[w].resp.stored = 1
        /\ ~BodySamples(handler[w].req.body).items[1].is_dict
        /\ Len(channel_amplitude) = 3

\* An authenticated POST /api/channel_amplitude whose body parses and whose
\* "samples" value is present but is not an array.
NonArraySamples(r) ==
    /\ r.endpoint = "channel_amplitude"
    /\ PassesAuthentication(r)
    /\ r.body.valid
    /\ r.body.samples.type \notin {"absent", "list"}

\* C14: an authenticated POST /api/channel_amplitude whose samples value is
\* present but is not an array (empty and falsy values such as {} included)
\* stores no ChannelAmplitudeSample row, is never answered 201, and once its Node
\* is resolved is answered 400.
C14_NonArraySamplesRejected ==
    \A w \in Workers :
        NonArraySamples(handler[w].req) =>
            /\ handler[w].inserted = 0
            /\ handler[w].resp.status # 201
            /\ (handler[w].pc = "idle" /\ handler[w].resp.status # 500)
                   => handler[w].resp.status = 400

\* An ingestion request that has been answered 400.
Ingestion400(w) ==
    /\ handler[w].req.endpoint \in {"measurements", "channel_amplitude"}
    /\ handler[w].pc = "idle"
    /\ handler[w].resp.status = 400

\* C15: an ingestion request answered 400 (invalid JSON, or non-array samples) is
\* rejected whole: it has inserted no Measurement or ChannelAmplitudeSample row
\* and has added no Node record, also when its credential was previously unseen.
C15_BadRequestRejectedWhole ==
    \A w \in Workers :
        Ingestion400(w) =>
            /\ handler[w].inserted = 0
            /\ handler[w].created = 0

\* The Node record with the given id, in a table that holds one.
NodeOf(table, id) == CHOOSE n \in table : n.id = id

\* C16: in every step of a request on the Node that carries its credential, a
\* name the request supplies becomes the Node's name when the request upserts the
\* Node, and a stored latitude or longitude that is not null is left as it is.
C16_CoordinatesWrittenOnce ==
    [][\A w \in Workers :
           handler'[w] # handler[w] =>
               \A n \in nodes :
                   n.api_key_hash = Sha256(ApiKeyOf(handler'[w])) =>
                       /\ \E m \in nodes' : m.id = n.id
                       /\ (handler[w].pc \in {"m_register", "m_update"}
                           /\ TruthyName(BodyName(handler[w].req.body)))
                              => NodeOf(nodes', n.id).name = BodyName(handler[w].req.body)
                       /\ n.latitude # Null
                              => NodeOf(nodes', n.id).latitude = n.latitude
                       /\ n.longitude # Null
                              => NodeOf(nodes', n.id).longitude = n.longitude]_vars

\* C17: when a POST /api/measurements that found its Node already registered with
\* null coordinates supplies latitude and longitude, the Node's coordinates are
\* the supplied values when the request is answered 201, with or without a name
\* in the request.
C17_SuppliedCoordinatesStored ==
    [][\A w \in Workers :
           LET h == handler[w]
               lat == BodyLatitude(h.req.body)
               lon == BodyLongitude(h.req.body)
           IN  (/\ h.pc = "m_touch"
                /\ handler'[w].resp.status = 201
                /\ ~h.unseen
                /\ h.node_row.latitude = Null /\ h.node_row.longitude = Null
                /\ lat # Null /\ lon # Null)
                   => /\ NodeOf(nodes', h.node_id).latitude = lat
                      /\ NodeOf(nodes', h.node_id).longitude = lon]_vars

\* The primary-loop threads that are inside a collection cycle.
InCycle ==
    { t \in ThreadIds : threads[t].target = "run_continuous"
                        /\ threads[t].pc = "cycle" }

\* C18: at most one primary collection cycle is in progress at any time, for
\* every interleaving of start() and stop() calls.
C18_AtMostOneCycle == Cardinality(InCycle) <= 1


\* The caller that makes the next call (the first idle one).
NextCaller(c) ==
    /\ caller[c].pc = "idle"
    /\ \A d \in Callers : d < c => caller[d].pc # "idle"

\* C19: a start() call that finds the scheduler running ends at once without an
\* error and changes nothing: no thread is created or started, running stays
\* true, and _monitor_thread and _channel_scan_thread refer to the threads they
\* referred to before.
C19_StartWhileRunningNoOp ==
    [][\A c \in Callers :
          (NextCaller(c) /\ calls' = calls + 1 /\ caller'[c].op = "start"
           /\ running)
              => /\ caller'[c].pc = "idle"
                 /\ caller'[c].result = "already_running"
                 /\ threads' = threads
                 /\ running'
                 /\ monitor_thread' = monitor_thread
                 /\ channel_scan_thread' = channel_scan_thread]_vars

\* A start() call has found the scheduler running, and the primary-loop and
\* channel-sweep threads are alive.
C19_Witness ==
    /\ \E c \in Callers : caller[c].result = "already_running"
    /\ running
    /\ monitor_thread # NoThread /\ IsAlive(threads[monitor_thread])
    /\ channel_scan_thread # NoThread /\ IsAlive(threads[channel_scan_thread])

\* C20: stop() always returns: no stop() call ends with an exception.
C20_StopAlwaysReturns ==
    \A c \in Callers :
        ~(caller[c].op = "stop" /\ caller[c].result = "RuntimeError")

(***************************************************************************)
(* C30: generate_inferences                                                *)
(***************************************************************************)
\* The metric an event type is detected from.
OwnMetric(event_type) ==
    CASE event_type = "deauth_burst" -> "deauth_count"
      [] event_type = "rf_jamming" -> "rf_jam_detected"
      [] event_type = "disassoc_burst" -> "disassoc_count"
      [] OTHER -> "none"

ExpectedHypothesis(event_type) ==
    CASE event_type = "deauth_burst" -> <<"wifi_deauth", "high">>
      [] event_type = "rf_jamming" -> <<"wifi_rf_jamming", "medium">>
      [] event_type = "disassoc_burst" -> <<"wifi_disassoc", "high">>
      [] OTHER -> <<"none", "none">>

C30_WitnessEmpty ==
    /\ inferences.called
    /\ context_data = <<>>
    /\ network_event.event_type = "rf_jamming"

(***************************************************************************)
(* C29: one writer at a time                                               *)
(***************************************************************************)
\* C29: at most one thread at a time is inside a mutating storage operation
\* (insert_measurement, insert_channel_amplitude, upsert_node,
\* touch_node_last_seen), in every interleaving of the threads sharing one
\* Database, and a thread that has left an operation, by return or by an
\* exception, does not hold the lock: the lock is held exactly by the thread
\* inside.
C29_OneWriter ==
    /\ Cardinality(InsideOperation) <= 1
    /\ \A w \in Writers : (db_lock = w) <=> (w \in InsideOperation)

\* C29 witness: an operation of one thread failed and that thread left it, and a
\* thread that called later is inside its own operation while a third one waits.
C29_Witness ==
    \E w, v, u \in Writers :
        /\ writer[w].pc = "idle"
        /\ writer[w].result = "raised"
        /\ writer[v].pc = "inside"
        /\ writer[v].at > writer[w].at
        /\ writer[u].pc = "waiting"

(***************************************************************************)
(* C22 - C24, C28: one primary collection cycle                            *)
(***************************************************************************)
\* A step in which the _run_collection_cycle of loop thread t returns.
LoopCycleReturns(t) == threads[t].pc = "cycle" /\ threads'[t].pc # "cycle"

\* A step in which the _run_collection_cycle of run_once returns.
RunOnceReturns ==
    caller[MainThread].pc = "cycle" /\ caller'[MainThread].pc # "cycle"

CycleReturns == RunOnceReturns \/ \E t \in ThreadIds : LoopCycleReturns(t)

\* The POSTs of primary cycles in a push log.
MeasurementPushes(log) == SelectSeq(log, LAMBDA p : p.endpoint = "measurements")

OneInsertNoPush ==
    /\ Len(monitoring_data') = Len(monitoring_data) + 1
    /\ push_log' = push_log

OnePushNoInsert ==
    /\ Len(MeasurementPushes(push_log')) = Len(MeasurementPushes(push_log)) + 1
    /\ Len(push_log') = Len(push_log) + 1
    /\ monitoring_data' = monitoring_data

\* C22 as stated: a primary cycle with a non-empty metric map performs exactly
\* one local Measurement insert and no push in relay role, and exactly one push
\* attempt and no local insert in node role.
C22_RoleDispatch ==
    [][(CycleReturns /\ measurement' # NoMetrics) =>
           /\ IsRelay => OneInsertNoPush
           /\ IsNode => OnePushNoInsert]_vars

\* C22, amended: a primary cycle with a non-empty metric map performs exactly one
\* local Measurement insert and no push in relay role; in node role with a relay
\* URL and an API key configured it performs exactly one push attempt and no
\* local insert; in node role without one of them it performs neither.
C22_RoleDispatchConfigured ==
    [][(CycleReturns /\ measurement' # NoMetrics) =>
           /\ IsRelay => OneInsertNoPush
           /\ (IsNode /\ RelayConfigured) => OnePushNoInsert
           /\ (IsNode /\ ~RelayConfigured) =>
                  /\ monitoring_data' = monitoring_data
                  /\ push_log' = push_log]_vars

\* C22 witness: a node with its relay configured ran a cycle on a non-empty map:
\* one POST of the measurement and no local row.
C22_Witness ==
    /\ IsNode
    /\ RelayConfigured
    /\ measurement # NoMetrics
    /\ Len(MeasurementPushes(push_log)) = 1
    /\ monitoring_data = <<>>
    /\ cycles = 1
    /\ \A t \in ThreadIds : threads[t].pc # "cycle"

\* C22 witness of the relay role: one cycle on a non-empty map, one row, no POST.
C22_WitnessRelay ==
    /\ IsRelay
    /\ measurement # NoMetrics
    /\ Len(monitoring_data) = 1
    /\ push_log = <<>>
    /\ cycles = 1


\* The last POST of a push log failed and was the POST of a primary cycle.
LastPushFailed(log) ==
    /\ log # <<>>
    /\ log[Len(log)].endpoint = "measurements"
    /\ ~log[Len(log)].ok

\* No measurement is POSTed twice: each primary cycle has at most one attempt in
\* the log, successful or not.
PushedOnce ==
    LET pushes == MeasurementPushes(push_log)
    IN  \A i, j \in 1..Len(pushes) : pushes[i].when = pushes[j].when => i = j

\* C23: in node role each primary cycle makes at most one push attempt; when the
\* push fails the cycle's data is dropped: it is not sent again in that cycle,
\* not stored or queued anywhere (the step that logs the failed attempt changes no
\* table and not the time of the last collection), never sent by a later cycle
\* (no cycle's measurement appears twice among the attempts), and the loop thread
\* is back at its `while` test, from where the next cycle begins.
C23_FailedPushDropped ==
    /\ [](IsNode => PushedOnce)
    /\ [][(IsNode /\ CycleReturns) =>
              /\ Len(push_log') <= Len(push_log) + 1
              /\ (Len(push_log') > Len(push_log) /\ LastPushFailed(push_log')) =>
                     /\ tables' = tables
                     /\ last_collection_time' = last_collection_time
                     /\ \A t \in ThreadIds :
                            LoopCycleReturns(t) => threads'[t].pc = "while"]_vars

\* C23 witness: the push of the first cycle failed, and the loop ran its next
\* cycle, whose own measurement was pushed.
C23_Witness ==
    /\ IsNode
    /\ Len(push_log) = 2
    /\ push_log[1] = [endpoint |-> "measurements", when |-> 1, ok |-> FALSE]
    /\ push_log[2] = [endpoint |-> "measurements", when |-> 2, ok |-> TRUE]
    /\ last_collection_time = 2
    /\ \E t \in ThreadIds : threads[t].target = "run_continuous" /\ threads[t].pc = "while"


\* C24: a primary cycle whose acquired map contains no metric beyond the
\* timestamp performs no Measurement insert and no push, in both roles: the step
\* in which such a cycle returns changes no table, not the push log and not the
\* time of the last collection.
C24_EmptyCycleSkipped ==
    [][(CycleReturns /\ measurement' = NoMetrics) =>
           /\ tables' = tables
           /\ push_log' = push_log
           /\ last_collection_time' = last_collection_time]_vars

\* C24 witness: a relay, or a node with its relay configured, has run a cycle
\* whose map was empty, after a cycle that had stored or pushed its own map, and
\* nothing was added.
C24_Witness ==
    /\ measurement = NoMetrics
    /\ cycles = 2
    /\ \A t \in ThreadIds : threads[t].pc # "cycle"
    /\ caller[MainThread].pc # "cycle"
    /\ last_collection_time = 1
    /\ IF IsRelay THEN Len(monitoring_data) = 1 /\ push_log = <<>>
       ELSE RelayConfigured /\ Len(push_log) = 1 /\ monitoring_data = <<>>


\* What a cycle begun at time `at` on the map measurement' leaves behind.
CycleOutcome(at) ==
    LET row == [timestamp |-> at, node_id |-> None,
                wifi_channel |-> Null, wifi_util_pct |-> Null, noise_dbm |-> Null,
                deauth_count |-> measurement'.deauth_count,
                disassoc_count |-> measurement'.disassoc_count,
                local_wifi_signal_dbm |-> measurement'.local_wifi_signal_dbm,
                local_wifi_noise_dbm |-> measurement'.local_wifi_noise_dbm,
                rf_jam_detected |-> measurement'.rf_jam_detected]
    IN  IF measurement' = NoMetrics
        THEN monitoring_data' = monitoring_data /\ push_log' = push_log
        ELSE IF IsRelay
        THEN monitoring_data' = Append(monitoring_data, row) /\ push_log' = push_log
        ELSE IF IsNode /\ RelayConfigured
        THEN /\ monitoring_data' = monitoring_data
             /\ Len(push_log') = Len(push_log) + 1
             /\ push_log'[Len(push_log')].endpoint = "measurements"
             /\ push_log'[Len(push_log')].when = at
        ELSE monitoring_data' = monitoring_data /\ push_log' = push_log

\* The loop state of the scheduler: the flag and the threads.
loop_state == <<running, monitor_thread, channel_scan_thread, threads>>

\* C28: run_once() performs exactly one primary collection cycle (the call begins
\* one cycle and returns when that cycle returns), with the outcome of a cycle of
\* the continuous loop for the same acquired map (same skip, same slim row, same
\* role dispatch), and it leaves the running flag and the loop threads unchanged.
C28_RunOnce ==
    [][/\ (caller[MainThread].pc = "idle" /\ caller'[MainThread].pc = "cycle") =>
              /\ cycles' = cycles + 1
              /\ loop_state' = loop_state
       /\ RunOnceReturns =>
              /\ cycles' = cycles
              /\ caller'[MainThread].pc = "idle"
              /\ loop_state' = loop_state
              /\ CycleOutcome(caller[MainThread].at)
       /\ \A t \in ThreadIds :
              LoopCycleReturns(t) => CycleOutcome(threads[t].at)]_vars

\* C28 witness: run_once() returned on a relay whose loop is running: its cycle
\* stored one row, the flag is still set and the loop thread is alive.
C28_Witness ==
    /\ caller[MainThread].op = "run_once"
    /\ caller[MainThread].result = "done"
    /\ IsRelay
    /\ measurement # NoMetrics
    /\ Len(monitoring_data) = 1
    /\ running
    /\ monitor_thread # NoThread
    /\ IsAlive(threads[monitor_thread])

(***************************************************************************)
(* C26, C27: the channel sweep                                             *)
(***************************************************************************)
\* C26: when the channel sweep is not enabled in the configuration, start()
\* creates no channel-sweep thread and the scheduler produces no
\* ChannelAmplitudeSample (none stored, none pushed), whatever start(), stop()
\* and run_once() calls are made.
C26_NoSweepUnlessEnabled ==
    ~scan_enabled =>
        /\ channel_scan_thread = NoThread
        /\ \A t \in ThreadIds : threads[t].target # "run_channel_scan_loop"
        /\ sweeps = 0
        /\ channel_amplitude = <<>>
        /\ \A i \in 1..Len(push_log) : push_log[i].endpoint # "channel_amplitude"

\* C26 witness: with a local_wifi collector and the sweep not enabled, start(),
\* stop() and start() were called, the second loop thread is running and a cycle
\* has been made.
C26_Witness ==
    /\ ~scan_enabled
    /\ "local_wifi" \in collectors
    /\ calls = 3
    /\ Len(threads) = 2
    /\ running
    /\ IsAlive(threads[2])
    /\ caller[MainThread].result = "started"
    /\ cycles >= 1


\* The rows of a channel_amplitude table that the sweep made at `when` stored.
SweepRows(table, when) == SelectSeq(table, LAMBDA r : r.timestamp = when)

\* A step that attempts the push of a sweep.
SweepPushAttempted ==
    /\ Len(push_log') = Len(push_log) + 1
    /\ push_log'[Len(push_log')].endpoint = "channel_amplitude"

\* C27: in node role with a relay endpoint configured, every channel sweep has
\* inserted all of its samples (one per swept channel) into the local store
\* before the push to the relay is attempted; the attempt, failed or not, leaves
\* the stored rows in place, and no step ever removes or changes a stored row; in
\* relay role the sweep stores locally and never pushes.
C27_SweepStoredBeforePush ==
    /\ [](IsRelay =>
             \A i \in 1..Len(push_log) : push_log[i].endpoint # "channel_amplitude")
    /\ [][/\ SweepPushAttempted =>
                 /\ IsNode
                 /\ relay_url # None
                 /\ Len(SweepRows(channel_amplitude, push_log'[Len(push_log')].when))
                        = Len(SweepChannels)
                 /\ channel_amplitude' = channel_amplitude
          /\ SubSeq(channel_amplitude', 1, Len(channel_amplitude)) = channel_amplitude
         ]_vars

\* C27 witness: a node pushed its sweep, the push failed, and the rows of the
\* sweep are in the local store after the loop has ended.
C27_Witness ==
    /\ IsNode
    /\ relay_url # None
    /\ push_log # <<>>
    /\ push_log[Len(push_log)] =
           [endpoint |-> "channel_amplitude", when |-> 1, ok |-> FALSE]
    /\ Len(SweepRows(channel_amplitude, 1)) = Len(SweepChannels)
    /\ ~running
    /\ \A t \in ThreadIds : ~IsAlive(threads[t])

\* C27 witness of the relay role: a relay has stored a sweep and pushed nothing.
C27_WitnessRelay ==
    /\ IsRelay
    /\ Len(SweepRows(channel_amplitude, 1)) = Len(SweepChannels)
    /\ push_log = <<>>
    /\ \A t \in ThreadIds : threads[t].pc # "sweep"

(***************************************************************************)
(* C21: the stop flag and the loops                                        *)
(***************************************************************************)
\* A step in which loop thread t begins a primary cycle or a channel sweep.
BeginsIteration(t) ==
    /\ threads[t].pc \notin {"cycle", "sweep"}
    /\ threads'[t].pc \in {"cycle", "sweep"}

\* C21: the stop flag is observed at the loop-iteration boundaries: a loop begins
\* a primary cycle or a channel sweep only in a state where running is true, so
\* once stop() has cleared the flag and no start() sets it again no new cycle and
\* no new sweep begins (a cycle or sweep in progress runs to its end); and if the
\* flag stays false from some point on, every loop thread eventually terminates
\* and stays terminated.
C21_StopObserved ==
    /\ [][\A t \in ThreadIds : BeginsIteration(t) => running]_vars
    /\ (<>[](~running)) => <>[](\A t \in ThreadIds : ~IsAlive(threads[t]))

\* C21 witness: stop() has returned, the flag is false, and the primary loop
\* and the sweep loop, which had made a cycle and a sweep, have both ended.
C21_Witness ==
    /\ ~running
    /\ caller[MainThread].op = "stop"
    /\ caller[MainThread].result = "stopped"
    /\ Len(threads) = 2
    /\ \A t \in ThreadIds : threads[t].pc = "done"
    /\ cycles >= 1
    /\ sweeps >= 1

\* C21 witness of the cycle in progress: the flag is false while a primary cycle
\* that began before stop() is still running.
C21_WitnessInProgress ==
    /\ ~running
    /\ caller[MainThread].op = "stop"
    /\ \E t \in ThreadIds : threads[t].pc = "cycle"

(***************************************************************************)
(* C25: the rate cap                                                       *)
(***************************************************************************)
\* A step in which loop thread t begins a primary cycle after an earlier one.
BeginsNextCycle(t) ==
    /\ threads[t].pc = "while"
    /\ threads'[t].pc = "cycle"
    /\ timer[t].start # Null

\* C25: with the local_wifi collector active, consecutive primary cycles of the
\* continuous loop start at least the configured capture interval apart, even
\* when the acquisition returns at once; with a 30 s interval a loop has completed
\* at most one cycle within the first 10 s of its run.
C25_RateCap ==
    /\ [][\A t \in ThreadIds :
              BeginsNextCycle(t) =>
                  clock - timer[t].start >= Interval(capture_seconds)]_vars
    /\ [](\A t \in ThreadIds :
              (capture_seconds = 30 /\ timer[t].began # Null
                 /\ clock - timer[t].began <= 10) => timer[t].completed <= 1)

(***************************************************************************)
(* C31, C32, C40: deduplication, checked under SpecDetector                *)
(***************************************************************************)
\* The positions of the returned list that hold an event of a key.
ReturnedFor(key) == { i \in 1..Len(events) : EventKey(events[i]) = key }

\* C31: deduplication only replaces an event by one of the same (event_type,
\* bucket) key, so every key that has at least one threshold event is
\* represented by exactly one event in the list detect_events returns. The code
\* violates it: the event replaced is the first kept event of the same type,
\* whatever its bucket.
C31_ExactlyOneEventPerKey ==
    Called =>
        \A t \in Range(threshold_events) :
            Cardinality(ReturnedFor(EventKey(t))) = 1

\* The threshold events of a key, and whether they all have one severity.
ThresholdEventsFor(key) == { t \in Range(threshold_events) : EventKey(t) = key }

EqualSeverity(key) ==
    \A a, b \in ThresholdEventsFor(key) : a.severity = b.severity

\* C32: when the threshold events of one (event_type, bucket) key all have the
\* same severity, the events returned for the key are the earliest of them only:
\* no later event of equal severity is in the returned list. The code violates
\* it: the later event is compared with a kept event of another bucket, takes its
\* place and is returned beside the earliest one of its own key.
C32_EarliestOfEqualSeverityKept ==
    Called =>
        \A t \in Range(threshold_events) :
            EqualSeverity(EventKey(t)) =>
                \A i \in ReturnedFor(EventKey(t)) :
                    \A u \in ThresholdEventsFor(EventKey(t)) :
                        events[i].timestamp <= u.timestamp

\* C40: the event_id values of the list returned by detect_events are pairwise
\* distinct, also when several rows of the window share a timestamp. The code
\* violates it: of two threshold events of one type and one timestamp, the second
\* can replace a kept event of another bucket and be returned beside the first.
C40_DistinctEventIds ==
    Called =>
        \A i, j \in 1..Len(events) :
            i # j => events[i].event_id # events[j].event_id

(***************************************************************************)
(* The scheduler with a failing store: insert_measurement and               *)
(* insert_channel_amplitude can raise                                      *)
(***************************************************************************)
\* Mutant of LoopCycleInsertFails: the exception of insert_measurement is not
\* caught, and the loop thread ends.
LoopCycleInsertEscapes(t, data) ==
    /\ threads[t].target = "run_continuous"
    /\ threads[t].pc = "cycle"
    /\ IsRelay
    /\ ~NoDataCollected(data)
    /\ measurement' = data
    /\ threads' = [threads EXCEPT ![t] = Exited(@)]
    /\ UNCHANGED <<scheduler_frame, monitoring_data, last_collection_time,
                   push_log, channel_amplitude, running, monitor_thread,
                   channel_scan_thread, caller, calls, cycles, sweeps>>

\* _run_collection_cycle in relay role when self.database.insert_measurement(slim)
\* raises: the statement was rolled back, `except Exception as db_error` logs
\* it, _last_collection_time is not set, and _run_continuous goes on to its
\* sleep and its test
LoopCycleInsertFails(t, data) ==
    /\ threads[t].target = "run_continuous"
    /\ threads[t].pc = "cycle"
    /\ IsRelay
    /\ ~NoDataCollected(data)
    /\ measurement' = data
    /\ threads' = [threads EXCEPT ![t].pc = "while", ![t].at = 0]
    /\ UNCHANGED <<scheduler_frame, monitoring_data, last_collection_time,
                   push_log, channel_amplitude, running, monitor_thread,
                   channel_scan_thread, caller, calls, cycles, sweeps>>

\* run_once() when insert_measurement raises: the cycle logs the error and
\* returns, and so does the call
RunOnceCycleInsertFails(c, data) ==
    /\ caller[c].pc = "cycle"
    /\ IsRelay
    /\ ~NoDataCollected(data)
    /\ measurement' = data
    /\ caller' = [caller EXCEPT ![c] = Return(c, "done")]
    /\ UNCHANGED <<scheduler_frame, monitoring_data, last_collection_time,
                   push_log, channel_amplitude, running, monitor_thread,
                   channel_scan_thread, threads, calls, cycles, sweeps>>

\* _run_channel_scan_loop when insert_channel_amplitude raises for sample
\* number `failed`: the samples before it are stored (each insert commits),
\* `except Exception` logs the error, nothing is pushed, and the loop comes
\* back to `while self.running:`
ScanSweepInsertFails(t, outcome, failed) ==
    /\ threads[t].target = "run_channel_scan_loop"
    /\ threads[t].pc = "sweep"
    /\ ~outcome.raised
    /\ failed \in 1..Len(outcome.samples)
    /\ channel_amplitude' =
           InsertSweep(channel_amplitude, threads[t].at, None,
                       SubSeq(outcome.samples, 1, failed - 1))
    /\ threads' = [threads EXCEPT ![t] = AfterSweep(@)]
    /\ UNCHANGED <<scheduler_frame, measurement, monitoring_data, running,
                   monitor_thread, channel_scan_thread, last_collection_time,
                   caller, calls, cycles, sweeps, push_log>>

StoreFails ==
    \/ \E t \in ThreadIds, data \in CollectAll : LoopCycleInsertFails(t, data)
    \/ \E data \in CollectAll : RunOnceCycleInsertFails(MainThread, data)
    \/ \E t \in ThreadIds, outcome \in SweepOutcomes,
          failed \in 1..Len(SweepChannels) :
           ScanSweepInsertFails(t, outcome, failed)

NextFaulty ==
    \/ NextMain
    \/ StoreFails

SpecFaulty == InitMain /\ [][NextFaulty]_vars

(***************************************************************************)
(* C33: no failure inside a cycle ends a loop, checked under SpecFaulty    *)
(***************************************************************************)
\* A loop thread takes a step.
ThreadSteps(t) == threads'[t] # threads[t]

\* The Measurement rows and the delivered pushes are what they were, but for
\* the data of the cycle `at` that returns in this step.
OnlyCycleData(at) ==
    /\ \/ monitoring_data' = monitoring_data
       \/ monitoring_data' =
              InsertMeasurement(monitoring_data, SlimMeasurement(at, measurement'))
    /\ \/ push_log' = push_log
       \/ /\ Len(push_log') = Len(push_log) + 1
          /\ SubSeq(push_log', 1, Len(push_log)) = push_log
          /\ push_log'[Len(push_log')].when = at

\* C33: a primary cycle that returns, failed or not, leaves its loop thread
\* alive at the loop test, and a loop thread at its test with running true and
\* collectors begins the next cycle; a sweep that returns, failed or not, leaves
\* its thread at the push or, by the value of running, in the sleep before the
\* next sweep. The data of a failed cycle is lost: the failing step stores and
\* delivers nothing, and the rows and pushes of any step are those of the cycle
\* that returns in that step, never those of an earlier cycle.
C33_FailureKeepsLoopAlive ==
    [][ /\ \A t \in ThreadIds :
            /\ (threads[t].pc = "cycle" /\ ThreadSteps(t)) =>
                   /\ threads'[t].pc = "while"
                   /\ OnlyCycleData(threads[t].at)
            /\ (threads[t].pc = "while" /\ ThreadSteps(t) /\ running
                    /\ collectors # {}) =>
                   /\ threads'[t].pc = "cycle"
                   /\ threads'[t].at = cycles'
                   /\ cycles' = cycles + 1
            /\ (threads[t].pc \in {"sweep", "push"} /\ ThreadSteps(t)) =>
                   \/ threads'[t] = AfterSweep(threads[t])
                   \/ threads[t].pc = "sweep" /\ threads'[t].pc = "push"
        /\ (caller[MainThread].pc = "cycle" /\ caller' # caller) =>
               OnlyCycleData(caller[MainThread].at)
        /\ (/\ \A t \in ThreadIds : threads[t].pc = "cycle" => ~ThreadSteps(t)
            /\ ~(caller[MainThread].pc = "cycle" /\ caller' # caller)) =>
               /\ monitoring_data' = monitoring_data
               /\ \A i \in 1..Len(push_log') :
                      i > Len(push_log) =>
                          push_log'[i].endpoint # "measurements"
      ]_vars

\* A loop thread is in its second cycle on a relay whose only collected
\* measurement so far was not stored: the insert of the first cycle raised.
C33_Witness ==
    /\ IsRelay
    /\ calls = 1
    /\ measurement # NoMetrics
    /\ monitoring_data = <<>>
    /\ \E t \in ThreadIds : threads[t].pc = "cycle" /\ threads[t].at = 2

\* A channel-sweep thread sleeps before its next sweep with part of the sweep
\* stored: the insert of a later sample raised.
C33_WitnessSweep ==
    /\ Len(channel_amplitude) = 1
    /\ running
    /\ \E t \in ThreadIds : threads[t].pc = "scan_sleep"

(***************************************************************************)
(* C34: the scheduler's rows in cycle order, checked under SpecPrimary     *)
(***************************************************************************)
\* C34: the Measurement rows the scheduler of one relay process has written
\* are in cycle order: a row inserted later has a timestamp greater than or
\* equal to that of every row inserted before it.
C34_RowsInCycleOrder ==
    \A i, j \in 1..Len(monitoring_data) :
        i < j => monitoring_data[i].timestamp <= monitoring_data[j].timestamp

(***************************************************************************)
(* C35: upsert_node, checked on every nodes table SpecRelay reaches        *)
(***************************************************************************)
\* Arguments of upsert_node: ids seen and unseen, coordinates and credential
\* fingerprint that are null or not (0 is a coordinate, not null).
UpsertIds == {"aa", "bb", "cc"}

UpsertCoordinates == {Null, 0, 2}

UpsertHashes == {NoHash, Sha256("k2")}

\* upsert_node(node_id, name, latitude, longitude, api_key_hash) on `table`
\* leaves one record of that id, the records of the other ids as they were; on
\* an existing id each of the three fields is the new value when that is not
\* null and the existing value when it is; on an unseen id the record holds the
\* values given.
UpsertCoalesces(table, node_id, name, latitude, longitude, api_key_hash, time) ==
    LET after == UpsertNode(table, node_id, name, latitude, longitude,
                            api_key_hash, time)
        existing == { n \in table : n.id = node_id }
        stored == { n \in after : n.id = node_id }
    IN  /\ Cardinality(stored) = 1
        /\ { n \in after : n.id # node_id } = { n \in table : n.id # node_id }
        /\ Cardinality(after) =
               Cardinality(table) + (IF existing = {} THEN 1 ELSE 0)
        /\ \A m \in stored :
               IF existing = {}
               THEN m = [id |-> node_id, name |-> name, latitude |-> latitude,
                         longitude |-> longitude, api_key_hash |-> api_key_hash,
                         last_seen |-> time]
               ELSE \A n \in existing :
                   /\ m.latitude = IF latitude # Null THEN latitude ELSE n.latitude
                   /\ m.longitude =
                          IF longitude # Null THEN longitude ELSE n.longitude
                   /\ m.api_key_hash =
                          IF api_key_hash # NoHash THEN api_key_hash
                          ELSE n.api_key_hash

\* C35: upsert_node on an existing id coalesces latitude, longitude and the
\* credential fingerprint field by field (the new value when it is non-null,
\* the existing value when it is null); on an unseen id it inserts exactly one
\* Node record, and it never leaves a second record of an existing id.
C35_UpsertCoalesces ==
    \A node_id \in UpsertIds, latitude \in UpsertCoordinates,
       longitude \in UpsertCoordinates, api_key_hash \in UpsertHashes :
        UpsertCoalesces(nodes, node_id, <<"n9">>, latitude, longitude,
                        api_key_hash, now)

\* The table holds a Node with coordinates and a fingerprint, written by
\* upsert_node, and another id is unseen: both cases of upsert_node happen.
C35_Witness ==
    /\ \E n \in nodes :
           /\ n.id \in UpsertIds
           /\ n.latitude # Null
           /\ n.longitude # Null
           /\ n.api_key_hash # NoHash
    /\ \E node_id \in UpsertIds : \A n \in nodes : n.id # node_id

(***************************************************************************)
(* C36: last_seen after a request, checked under SpecRelay                 *)
(***************************************************************************)
\* A request that passed authentication has been answered, and on its way it
\* resolved a Node (node_id = node_row["id"]).
AnsweredWithNode(w) ==
    /\ handler[w].pc = "idle"
    /\ handler[w].resp # NoResponse
    /\ handler[w].node_id # None

\* C36: after a request that passed authentication and resolved a Node, known
\* before or created by the request, the last_seen of that Node is not older
\* than the arrival of the request. The code violates it: a channel-amplitude
\* request answered 400 has resolved its Node and returns without touching it.
C36_LastSeenRefreshed ==
    \A w \in Workers :
        AnsweredWithNode(w) =>
            \E n \in nodes :
                /\ n.id = handler[w].node_id
                /\ n.last_seen >= handler[w].arrived

(***************************************************************************)
(* A relay process: the ingestion API and primary cycles (run_once) write   *)
(* to one store                                                            *)
(***************************************************************************)
InitIngest ==
    /\ InitMain
    /\ IsRelay
    /\ ~scan_enabled
    /\ collectors = {"local_wifi"}
    /\ relay_url = None

NextIngest ==
    \/ NextRelay
    \/ RunOnce(MainThread)
    \/ \E data \in CollectAll : RunOnceCycle(MainThread, data, TRUE)

SpecIngest == InitIngest /\ [][NextIngest]_vars

(***************************************************************************)
(* C37: the slim schema, checked under SpecIngest                          *)
(***************************************************************************)
\* The optional numeric fields of the slim schema, and the whole schema.
MetricFields ==
    {"wifi_channel", "wifi_util_pct", "noise_dbm", "deauth_count",
     "disassoc_count", "local_wifi_signal_dbm", "local_wifi_noise_dbm",
     "rf_jam_detected"}

SlimSchema == MetricFields \cup {"timestamp", "node_id"}

\* The row holds, for each metric field, the value the source map has for it,
\* and null for a field the source map does not hold (Null stands for an absent
\* key and for None alike).
StoresMetricsOf(row, source) ==
    \A k \in MetricFields :
        row[k] = IF k \in DOMAIN source THEN source[k] ELSE Null

\* C37: every Measurement row written by a primary cycle or by POST
\* /api/measurements has the fields of the slim schema and no other: the other
\* keys of the source map (the collected map, the request body) are dropped, a
\* metric field the source map does not hold is stored as null, not as zero, and
\* a metric field it holds is stored with its value.
C37_SlimSchemaOnly ==
    [][monitoring_data' # monitoring_data =>
          /\ Len(monitoring_data') = Len(monitoring_data) + 1
          /\ SubSeq(monitoring_data', 1, Len(monitoring_data)) = monitoring_data
          /\ LET row == monitoring_data'[Len(monitoring_data')]
             IN  /\ DOMAIN row = SlimSchema
                 /\ \/ \E w \in Workers :
                          /\ handler[w].pc = "m_insert"
                          /\ handler'[w].pc = "m_touch"
                          /\ StoresMetricsOf(row, handler[w].req.body)
                    \/ /\ caller[MainThread].pc = "cycle"
                       /\ caller'[MainThread].pc = "idle"
                       /\ StoresMetricsOf(row, measurement')
      ]_vars

\* The store holds a row of a request whose body has no deauth_count, and a row
\* of a primary cycle that collected three metrics, one of them 0, and no
\* signal level.
C37_Witness ==
    \E i, j \in 1..Len(monitoring_data) :
        /\ monitoring_data[i].node_id # None
        /\ monitoring_data[i].deauth_count = Null
        /\ monitoring_data[j].node_id = None
        /\ monitoring_data[j].deauth_count = 7
        /\ monitoring_data[j].disassoc_count = 0
        /\ monitoring_data[j].local_wifi_signal_dbm = Null

(***************************************************************************)
(* C38: concurrent first contact, checked under SpecRelay                  *)
(***************************************************************************)
\* The request served by w has been answered after its first lookup found no
\* Node for its credential and a later one resolved a Node.
FirstContactDone(w) ==
    /\ handler[w].pc = "idle"
    /\ handler[w].resp # NoResponse
    /\ handler[w].unseen
    /\ handler[w].node_id # None

\* How many rows of the two tables carry the node id.
RowsTagged(id) ==
    Cardinality({ i \in 1..Len(monitoring_data) : monitoring_data[i].node_id = id })
    + Cardinality({ i \in 1..Len(channel_amplitude) :
                      channel_amplitude[i].node_id = id })

\* C38: two first-contact requests with one previously unseen credential that
\* ran side by side (each looked the credential up before the other had
\* registered it), on either ingestion endpoint, leave exactly one Node record
\* for the credential, resolve the same node id, and every row they inserted
\* carries that id.
C38_ConcurrentFirstContact ==
    \A v, w \in Workers :
        (/\ v # w
         /\ FirstContactDone(v)
         /\ FirstContactDone(w)
         /\ ApiKeyOf(handler[v]) = ApiKeyOf(handler[w])) =>
            /\ Cardinality({ n \in nodes :
                   n.api_key_hash = Sha256(ApiKeyOf(handler[v])) }) = 1
            /\ Cardinality({ n \in nodes : n.id = handler[v].node_id }) = 1
            /\ handler[v].node_id = handler[w].node_id
            /\ RowsTagged(handler[v].node_id)
                   >= handler[v].inserted + handler[w].inserted

\* A measurement request and a channel-amplitude request with the same unseen
\* credential ran side by side and were both answered 201, each with rows.
C38_Witness ==
    \E v, w \in Workers :
        /\ FirstContactDone(v)
        /\ FirstContactDone(w)
        /\ ApiKeyOf(handler[v]) = ApiKeyOf(handler[w])
        /\ handler[v].req.endpoint = "measurements"
        /\ handler[w].req.endpoint = "channel_amplitude"
        /\ handler[v].resp.status = 201
        /\ handler[w].resp.status = 201
        /\ handler[v].inserted >= 1
        /\ handler[w].inserted >= 1

(***************************************************************************)
(* C39: rows are tagged from the credential, checked under SpecRelay       *)
(***************************************************************************)
\* The node id the credential of the request served by w resolves to.
CredentialNodeId(w) == NodeIdOf(Sha256(ApiKeyOf(handler[w])))

\* The row is tagged with the node id of w's credential, and a Node record of
\* that id exists.
TaggedFromCredential(row, w) ==
    /\ row.node_id = CredentialNodeId(w)
    /\ \E n \in nodes : n.id = row.node_id

\* C39: every row a request inserts through the ingestion API, in either
\* table, has the node id resolved from the request's own credential, which is
\* the id of an existing Node record; a node_id in the request body is not
\* used.
C39_NodeIdFromCredential ==
    [][\A w \in Workers :
           /\ (handler[w].pc = "m_insert" /\ handler'[w] # handler[w]) =>
                  /\ Len(monitoring_data') = Len(monitoring_data) + 1
                  /\ TaggedFromCredential(
                         monitoring_data'[Len(monitoring_data')], w)
           /\ (handler[w].pc = "c_samples" /\ handler'[w] # handler[w]
                   /\ channel_amplitude' # channel_amplitude) =>
                  /\ Len(channel_amplitude') = Len(channel_amplitude) + 1
                  /\ TaggedFromCredential(
                         channel_amplitude'[Len(channel_amplitude')], w)
      ]_vars

\* The store holds a Measurement row of a request whose body named the id of
\* another Node that exists: the row has the id of the request's credential.
C39_Witness ==
    \E w \in Workers :
        /\ handler[w].req.endpoint = "measurements"
        /\ handler[w].inserted = 1
        /\ handler[w].req.body.node_id # None
        /\ handler[w].req.body.node_id # CredentialNodeId(w)
        /\ \E n \in nodes : n.id = handler[w].req.body.node_id
        /\ \E i \in 1..Len(monitoring_data) :
               monitoring_data[i].node_id = CredentialNodeId(w)

=============================================================================
